---- MODULE Spec2Model ----
(***************************************************************************)
(* Verification model of the kinect-one host driver.                       *)
(*                                                                         *)
(*   SpecDepth  - DepthStreamParser (src/packet/parser/depth.rs) fed by a  *)
(*                device that sends sub-packets in order, with a bounded   *)
(*                number of stream faults.                                 *)
(*   SpecCmd    - CommandTransaction (src/command/mod.rs).                 *)
(*   SpecCheck  - check_complete_response on its own.                      *)
(*   SpecDev    - Device<Opened> lifecycle (src/device/opened.rs).         *)
(***************************************************************************)
EXTENDS Integers, Sequences, FiniteSets, TLC

VARIABLES
    \* ---- DepthStreamParser fields (depth.rs:20-26)
    memory,               \* accumulator, by cell of MemoryCuts
    worker,               \* sub-packet buffer: sequence of chunks
    processed_packets,    \* Option<u32>
    current_sequence,     \* u32
    current_subsequence,  \* u32 bit mask
    \* ---- observation of DepthStreamParser::parse
    depthResult,          \* value returned by the last parse call
    depthReturned,        \* sequence values of every packet returned so far
    depthCall,            \* what the last parse call did and saw
    depthRun,             \* the accepted footers since the sequence last changed
    depthWentBack,        \* an accepted footer carried a smaller sequence
    depthPanic,           \* "none", or the step at which parse panicked
    overflowChecks,       \* build profile: TRUE = debug (overflow panics)
    \* ---- the sensor feeding the iso stream
    devSeq, devSub, devPhase, faults,
    \* ---- CommandTransaction (command/mod.rs:15-20)
    sequence,             \* u32 counter of sequenced commands
    \* ---- observation of CommandTransaction::execute
    cmdResult,            \* Result<Vec<u8>, Error> of the last execute
    cmdCall,              \* the command of the last execute and its sequence
    cmdLog,               \* the transfers of the last execute, in order
    cmdAssigned,          \* the sequences given to sequenced commands so far
    checked,              \* a completion buffer put to check_complete_response
    \* ---- Opened (device/opened.rs:68-83)
    running,
    handle,               \* "opened", or what close made of the device
    \* ---- observation of the Device<Opened> operations
    opCall,               \* the last operation and the running flag it found
    opResult,             \* its Result
    opLog,                \* the transfers and commands it issued, in order
    pending,              \* transfers submitted to color_queue and ir_queue
                          \* (opened.rs:78-80) and not yet taken back
    \* ---- PacketSync (lib.rs:134-137)
    color_packet,         \* Option<ColorPacket>
    depth_packet,         \* VecDeque<DepthPacket>
    \* ---- observation of the PacketSync operations
    syncCall,             \* the last operation and the state it found
    syncResult,           \* what poll_packets returned
    \* ---- ColorStreamParser (color.rs:43-45)
    colorMemory,          \* memory: the transfers appended so far
    \* ---- observation of ColorStreamParser::parse
    colorCall,            \* what the last parse call was given and found
    colorResult,          \* Option<ColorPacket> it returned
    \* ---- Command::as_bytes put to the test on its own
    encoded,
    \* ---- CpuDepthProcessor fields (cpu.rs:61-79)
    processor,
    \* ---- observation of the CpuDepthProcessor functions
    stageCall             \* the last function called, its inputs and output
depthVars == <<memory, worker, processed_packets, current_sequence,
               current_subsequence, depthResult, depthReturned, depthCall,
               depthRun, depthWentBack, depthPanic, overflowChecks,
               devSeq, devSub, devPhase, faults>>

cmdVars == <<sequence, cmdResult, cmdCall, cmdLog, cmdAssigned>>

opVars == <<running, handle, opCall, opResult, opLog, pending>>

syncVars == <<color_packet, depth_packet, syncCall, syncResult>>

colorVars == <<colorMemory, colorCall, colorResult>>

procVars == <<processor, stageCall>>

vars == <<depthVars, cmdVars, checked, opVars, syncVars, colorVars, encoded,
          procVars>>

\* Option<T>: None is the empty sequence, Some(x) the sequence <<x>>
None == <<>>

Some(x) == <<x>>

Unwrap(o) == o[1]

(***************************************************************************)
(* Bounds of the exploration.                                              *)
(***************************************************************************)
MaxSequence == 2
MaxFaults == 1

\* sequenced commands executed on one CommandTransaction
MaxCommands == 3

\* transfers submitted by one poll call
MaxTransfers == 2

\* the depth packets PacketSync is given room for in a run
MaxDepthPackets == 11

\* the transfers the color parser's memory holds at most in a run
MaxColorTransfers == 2

\* the transfers the depth parser's worker holds, and the footers it
\* accepts, at most when transfers of any size arrive
MaxChunks == 2

\* the transfers a failed poll call leaves in a queue at most
MaxPending == 1

(***************************************************************************)
(* Program constants.                                                      *)
(***************************************************************************)
DEPTH_WIDTH == 512
DEPTH_HEIGHT == 424
DEPTH_SIZE == DEPTH_WIDTH * DEPTH_HEIGHT
WORKER_CAPACITY == (DEPTH_SIZE * 11) \div 8
SubPacketCount == 10
MEMORY_CAPACITY == WORKER_CAPACITY * SubPacketCount
\* size_of::<DepthSubPacketFooter>(): 6 u32 fields and [u32; 32], packed
DepthFooterSize == (6 + 32) * 4
FullMask == 1023
INTERVAL == 30

(***************************************************************************)
(* u32 arithmetic.  A u32 is kept as two 16-bit limbs [hi, lo] wherever a  *)
(* result can pass 2^31; the values the device sends and the parser stores *)
(* are below 2^31 and kept as plain naturals.                              *)
(***************************************************************************)
Limb == 65536

ToLimbs(n) ==
    [hi |-> n \div Limb, lo |-> n % Limb]

\* x + y on u32: the wrapped sum and whether the true sum passed 2^32 - 1
AddU32(x, y) ==
    LET lo == x.lo + y.lo
        hi == x.hi + y.hi + (lo \div Limb)
    IN  [hi |-> hi % Limb, lo |-> lo % Limb, overflow |-> hi >= Limb]

\* a * x on u32, a a natural: shift and add
RECURSIVE MulU32(_, _)
MulU32(a, x) ==
    IF a = 0
    THEN [hi |-> 0, lo |-> 0, overflow |-> FALSE]
    ELSE LET half == MulU32(a \div 2, x)
             dbl == AddU32(half, half)
             sum == IF a % 2 = 1 THEN AddU32(dbl, x) ELSE dbl
         IN  [hi |-> sum.hi, lo |-> sum.lo,
              overflow |-> half.overflow \/ dbl.overflow \/ sum.overflow]

\* a - b on u32, a and b below 2^31
SubU32(a, b) ==
    IF a >= b
    THEN [hi |-> (a - b) \div Limb, lo |-> (a - b) % Limb, overflow |-> FALSE]
    ELSE LET c == b - a     \* the wrapped value is 2^32 - c
         IN  [hi |-> (Limb - 1) - ((c - 1) \div Limb),
              lo |-> (Limb - 1) - ((c - 1) % Limb),
              overflow |-> TRUE]

\* x as usize <= n, n below 2^31
LeqNat(x, n) ==
    x.hi < Limb \div 2 /\ x.hi * Limb + x.lo <= n

\* x >= n, n below 2^16
GeqSmall(x, n) ==
    x.hi > 0 \/ x.lo >= n

ToNat(x) ==
    x.hi * Limb + x.lo

RECURSIVE Pow2(_)
Pow2(n) ==
    IF n = 0 THEN 1 ELSE 2 * Pow2(n - 1)

BitSet(mask, k) ==
    (mask \div Pow2(k)) % 2 = 1

\* mask |= 1 << k, for k < 31
BitOr(mask, k) ==
    IF BitSet(mask, k) THEN mask ELSE mask + Pow2(k)

\* The bit `1 << n` sets when overflow checks are off: the shift amount of a
\* u32 shift is taken modulo 32.
WrappedShift(n) ==
    n % 32

(***************************************************************************)
(* The accumulator `memory` (depth.rs:21, 34) is MEMORY_CAPACITY zero      *)
(* bytes.  It is kept by cell: the byte ranges between consecutive cut     *)
(* points, every offset at which a copy of the model can start or end.     *)
(* A cell holds Zero or the bytes of a worker from some offset on.         *)
(***************************************************************************)
BadSubsequences == {10, 11, 32, 14389}

Zero == [w |-> <<>>, off |-> 0]

WrappedStarts ==
    {ToNat(MulU32(b, ToLimbs(WORKER_CAPACITY))) :
        b \in {c \in BadSubsequences :
                 LeqNat(MulU32(c, ToLimbs(WORKER_CAPACITY)),
                        MEMORY_CAPACITY - WORKER_CAPACITY)}}

MemoryCuts ==
    {k * WORKER_CAPACITY : k \in 0..SubPacketCount}
    \cup UNION {{st, st + WORKER_CAPACITY} : st \in WrappedStarts}

Cells == MemoryCuts \ {MEMORY_CAPACITY}

CellEnd ==
    [lo \in Cells |->
        CHOOSE hi \in MemoryCuts :
            /\ hi > lo
            /\ \A c \in MemoryCuts : c > lo => hi <= c]

ZeroMemory == [lo \in Cells |-> Zero]

\* memory[start..start + length].copy_from_slice(&worker)   (depth.rs:110-111)
CopyFromSlice(mem, start, length, w) ==
    [lo \in Cells |->
        IF start <= lo /\ CellEnd[lo] <= start + length
        THEN [w |-> w, off |-> lo - start]
        ELSE mem[lo]]

RECURSIVE WorkerLen(_)
WorkerLen(w) ==
    IF w = <<>> THEN 0 ELSE Head(w).len + WorkerLen(Tail(w))

(***************************************************************************)
(* DepthStreamParser::parse (depth.rs:42-117).                             *)
(*                                                                         *)
(* A transfer `buffer` is [len, seq, sub, part, tail]: its length in       *)
(* bytes, the sub-packet and part its data bytes come from, and the        *)
(* DepthSubPacketFooter its last DepthFooterSize bytes read as.            *)
(***************************************************************************)
DepthFooter(seq, sub, length, ts) ==
    [sequence |-> seq, subsequence |-> sub, length |-> length, timestamp |-> ts]

\* depth.rs:48-49
FooterDetected(workerLen, bufferLen) ==
    workerLen + bufferLen = WORKER_CAPACITY + DepthFooterSize

\* the limit a footer further, to compare with
WorkerOverflowLate(workerLen, bufferLen) ==
    workerLen + bufferLen > WORKER_CAPACITY + DepthFooterSize

\* depth.rs:61
WorkerOverflow(workerLen, bufferLen) ==
    workerLen + bufferLen > WORKER_CAPACITY

\* a parser that takes every subsequence 0 as the start of a frame
SequenceChangedOrFirst(cur, footer) ==
    cur # footer.sequence \/ footer.subsequence = 0

\* depth.rs:78
SequenceChanged(cur, footer) ==
    cur # footer.sequence

\* a parser that looks for the last sub-packet only
FrameCompleteLast(mask) ==
    BitSet(mask, SubPacketCount - 1)

\* depth.rs:79
FrameComplete(mask) ==
    mask = FullMask

\* a packet tagged with the sequence of the footer that ends the frame
MakeDepthPacketNewSequence(cur, footer, mem) ==
    [sequence |-> footer.sequence, timestamp |-> footer.timestamp, buffer |-> mem]

\* depth.rs:80-84
MakeDepthPacket(cur, footer, mem) ==
    [sequence |-> cur, timestamp |-> footer.timestamp, buffer |-> mem]

\* depth.rs:86-90
CountProcessed(pp, cur) ==
    IF pp # None THEN Some(Unwrap(pp) + 1) ELSE Some(cur)

\* depth.rs:96
LossWindowReset(cur, diff) ==
    (cur % INTERVAL = 0 /\ GeqSmall(diff, 1)) \/ GeqSmall(diff, INTERVAL)

\* depth.rs:107
CopyInRange(start) ==
    LeqNat(start, MEMORY_CAPACITY)

\* The footer of a sub-packet was accepted (depth.rs:76-116).  `p` holds the
\* parser's fields, the worker already extended.  The steps run in program
\* order; the first one that panics ends the call with the fields as they
\* were at that point.
Assemble(p, footer, checks) ==
    LET changed == SequenceChanged(p.current_sequence, footer)
        emit == changed /\ FrameComplete(p.current_subsequence)
        packet == MakeDepthPacket(p.current_sequence, footer, p.memory)
        pp1 == IF emit THEN CountProcessed(p.processed_packets, p.current_sequence)
               ELSE p.processed_packets
        diff == SubU32(p.current_sequence, IF emit THEN Unwrap(pp1) ELSE 0)
        pp2 == IF emit /\ LossWindowReset(p.current_sequence, diff)
               THEN Some(p.current_sequence) ELSE pp1
        seq1 == IF changed THEN footer.sequence ELSE p.current_sequence
        mask0 == IF changed THEN 0 ELSE p.current_subsequence
        mask1 == BitOr(mask0, WrappedShift(footer.subsequence))
        start == MulU32(footer.subsequence, ToLimbs(footer.length))
        inRange == CopyInRange(start)
        panicAt ==
            IF emit /\ diff.overflow /\ checks THEN "sub"
            ELSE IF footer.subsequence >= 32 /\ checks THEN "shl"
            ELSE IF start.overflow /\ checks THEN "mul"
            ELSE IF inRange /\ ToNat(start) + footer.length > MEMORY_CAPACITY
                 THEN "slice"
            ELSE "none"
        mem1 == IF inRange /\ panicAt = "none"
                THEN CopyFromSlice(p.memory, ToNat(start), footer.length, p.worker)
                ELSE p.memory
    IN  [memory |-> mem1,
         worker |-> IF panicAt = "none" THEN <<>> ELSE p.worker,
         processed_packets |-> IF panicAt = "sub" THEN pp1 ELSE pp2,
         current_sequence |-> IF panicAt = "sub" THEN p.current_sequence ELSE seq1,
         current_subsequence |->
             IF panicAt = "sub" THEN p.current_subsequence
             ELSE IF panicAt = "shl" THEN mask0
             ELSE mask1,
         result |-> IF emit /\ panicAt = "none" THEN Some(packet) ELSE None,
         panic |-> panicAt,
         call |-> [kind |-> "footer", footer |-> Some(footer), w |-> p.worker]]

Returned(p, kind) ==
    [memory |-> p.memory, worker |-> p.worker,
     processed_packets |-> p.processed_packets,
     current_sequence |-> p.current_sequence,
     current_subsequence |-> p.current_subsequence,
     result |-> None, panic |-> "none",
     call |-> [kind |-> kind, footer |-> None, w |-> <<>>]]

Parse(p, buffer, checks) ==
    IF buffer.len = 0
    THEN Returned([p EXCEPT !.worker = <<>>], "empty")
    ELSE
    LET detected == FooterDetected(WorkerLen(p.worker), buffer.len)
        footer == IF detected THEN Some(buffer.tail) ELSE None
        rest == IF detected THEN buffer.len - DepthFooterSize ELSE buffer.len
        chunk == [len |-> rest, seq |-> buffer.seq, sub |-> buffer.sub,
                  part |-> buffer.part]
        extended == IF rest > 0 THEN Append(p.worker, chunk) ELSE p.worker
    IN  IF detected /\ buffer.len < DepthFooterSize
        THEN [Returned(p, "drain") EXCEPT !.panic = "drain"]
        ELSE IF WorkerOverflow(WorkerLen(p.worker), rest)
        THEN Returned([p EXCEPT !.worker = <<>>], "overflow")
        ELSE IF footer = None
        THEN Returned([p EXCEPT !.worker = extended], "chunk")
        ELSE IF Unwrap(footer).length # WorkerLen(extended)
        THEN [Returned([p EXCEPT !.worker = <<>>], "length") EXCEPT
                  !.call.footer = footer, !.call.w = extended]
        ELSE Assemble([p EXCEPT !.worker = extended], Unwrap(footer), checks)

(***************************************************************************)
(* The sensor.  It sends the sub-packets of a frame in order, each as a    *)
(* data transfer followed by the terminal transfer that carries the        *)
(* footer; devSeq, devSub name the sub-packet it sends next and devPhase   *)
(* the transfer of it.  At most MaxFaults times it misbehaves: a corrupted *)
(* footer, an empty transfer, or a jump to another place in the stream     *)
(* (a sub-packet lost, frames skipped or repeated).                        *)
(***************************************************************************)
FirstTransferLen == WORKER_CAPACITY \div 2

LastTransferLen == WORKER_CAPACITY - FirstTransferLen + DepthFooterSize

Timestamp(seq, sub) ==
    seq * SubPacketCount + sub + 1

\* what the tail of a data transfer reads as
JunkFooter == DepthFooter(0, 0, 0, 0)

DataTransfer ==
    [len |-> FirstTransferLen, seq |-> devSeq, sub |-> devSub, part |-> 1,
     tail |-> JunkFooter]

TerminalTransfer(footer) ==
    [len |-> LastTransferLen, seq |-> devSeq, sub |-> devSub, part |-> 2,
     tail |-> footer]

EmptyTransfer ==
    [len |-> 0, seq |-> 0, sub |-> 0, part |-> 0, tail |-> JunkFooter]

TrueFooter ==
    DepthFooter(devSeq, devSub, WORKER_CAPACITY, Timestamp(devSeq, devSub))

CorruptFooters ==
    {DepthFooter(devSeq, b, WORKER_CAPACITY, Timestamp(devSeq, devSub)) :
        b \in BadSubsequences}
    \cup {DepthFooter(devSeq, devSub, WORKER_CAPACITY - 1, Timestamp(devSeq, devSub))}

\* a jump loses the rest of the sub-packet in flight, or goes to the start
\* of any frame
JumpTargets ==
    ({<<s, 0>> : s \in 0..MaxSequence}
     \cup {<<devSeq, k>> : k \in {devSub + 1} \cap 0..(SubPacketCount - 1)})
    \ {<<devSeq, devSub>>}

ParserFields ==
    [memory |-> memory, worker |-> worker,
     processed_packets |-> processed_packets,
     current_sequence |-> current_sequence,
     current_subsequence |-> current_subsequence]

(***************************************************************************)
(* What a caller of parse can observe.  A footer is accepted when it was   *)
(* cut from the transfer and its length matched the worker (depth.rs:71).  *)
(* depthRun is the run of accepted footers that carry the same sequence,   *)
(* up to the last call: their subsequence, the worker bytes each arrived   *)
(* with, and whether the call returned a packet.                           *)
(***************************************************************************)
EmptyRun == [seq |-> None, subs |-> <<>>, returned |-> <<>>]

Accepted(call) ==
    call.kind = "footer"

StartsRun(run, call) ==
    Accepted(call) /\ run.seq # Some(Unwrap(call.footer).sequence)

ExtendRun(run, call, result) ==
    IF ~Accepted(call) THEN run
    ELSE LET f == Unwrap(call.footer)
             fresh == StartsRun(run, call)
         IN  [seq |-> Some(f.sequence),
              subs |-> Append(IF fresh THEN <<>> ELSE run.subs,
                              [sub |-> f.subsequence, w |-> call.w]),
              returned |-> Append(IF fresh THEN <<>> ELSE run.returned,
                                  result # None)]

\* one call of parse (poll_depth_packet's loop body, opened.rs:383-387)
CallParse(buffer) ==
    \E r \in {Parse(ParserFields, buffer, overflowChecks)} :
        /\ memory' = r.memory
        /\ worker' = r.worker
        /\ processed_packets' = r.processed_packets
        /\ current_sequence' = r.current_sequence
        /\ current_subsequence' = r.current_subsequence
        /\ depthResult' = r.result
        /\ depthReturned' = IF r.result # None
                            THEN Append(depthReturned, Unwrap(r.result).sequence)
                            ELSE depthReturned
        /\ depthCall' = [kind |-> r.call.kind, footer |-> r.call.footer,
                         cur |-> current_sequence, mask |-> current_subsequence,
                         prevRun |-> IF StartsRun(depthRun, r.call)
                                     THEN depthRun ELSE EmptyRun]
        /\ depthRun' = ExtendRun(depthRun, r.call, r.result)
        /\ depthWentBack' =
              (depthWentBack \/ (/\ Accepted(r.call)
                                  /\ Unwrap(r.call.footer).sequence < current_sequence))
        /\ depthPanic' = r.panic
        /\ UNCHANGED overflowChecks

Streaming ==
    depthPanic = "none" /\ devSeq <= MaxSequence

AdvanceDevice ==
    /\ devSeq' = IF devSub = SubPacketCount - 1 THEN devSeq + 1 ELSE devSeq
    /\ devSub' = IF devSub = SubPacketCount - 1 THEN 0 ELSE devSub + 1
    /\ devPhase' = 0

ParseData ==
    /\ Streaming
    /\ devPhase = 0
    /\ CallParse(DataTransfer)
    /\ devPhase' = 1
    /\ UNCHANGED <<devSeq, devSub, faults, cmdVars, checked, opVars, syncVars, colorVars,
                   encoded, procVars>>

ParseTerminal ==
    /\ Streaming
    /\ devPhase = 1
    /\ CallParse(TerminalTransfer(TrueFooter))
    /\ AdvanceDevice
    /\ UNCHANGED <<faults, cmdVars, checked, opVars, syncVars, colorVars,
                   encoded, procVars>>

ParseCorruptTerminal ==
    /\ Streaming
    /\ devPhase = 1
    /\ faults < MaxFaults
    /\ \E footer \in CorruptFooters : CallParse(TerminalTransfer(footer))
    /\ AdvanceDevice
    /\ faults' = faults + 1
    /\ UNCHANGED <<cmdVars, checked, opVars, syncVars, colorVars,
                   encoded, procVars>>

ParseEmpty ==
    /\ Streaming
    /\ faults < MaxFaults
    /\ CallParse(EmptyTransfer)
    /\ faults' = faults + 1
    /\ UNCHANGED <<devSeq, devSub, devPhase, cmdVars, checked, opVars, syncVars, colorVars,
                   encoded, procVars>>

DeviceJump ==
    /\ Streaming
    /\ faults < MaxFaults
    /\ \E to \in JumpTargets :
          /\ devSeq' = to[1]
          /\ devSub' = to[2]
    /\ devPhase' = 0
    /\ faults' = faults + 1
    /\ UNCHANGED <<memory, worker, processed_packets, current_sequence,
                   current_subsequence, depthResult, depthReturned, depthCall,
                   depthRun, depthWentBack, depthPanic, overflowChecks,
                   cmdVars, checked, opVars, syncVars, colorVars,
                   encoded, procVars>>

(***************************************************************************)
(* The isochronous endpoint delivering transfers of any size: shorter than *)
(* a footer, a footer alone, up to a worker and a footer in one.           *)
(***************************************************************************)
Sizes ==
    {0, 1, DepthFooterSize - 1, DepthFooterSize,
     WORKER_CAPACITY - DepthFooterSize, WORKER_CAPACITY,
     WORKER_CAPACITY + DepthFooterSize}

SizedFooters ==
    {DepthFooter(0, 0, WORKER_CAPACITY, 1),
     DepthFooter(0, 0, WORKER_CAPACITY - 1, 1)}

ParseSized ==
    /\ Streaming
    /\ \E len \in Sizes, footer \in SizedFooters :
           /\ CallParse([len |-> len, seq |-> 0, sub |-> 0, part |-> 0,
                         tail |-> footer])
           /\ Len(worker') <= MaxChunks
           /\ Len(depthRun'.subs) <= MaxChunks
    /\ UNCHANGED <<devSeq, devSub, devPhase, faults, cmdVars, checked, opVars,
                   syncVars, colorVars, encoded, procVars>>

(***************************************************************************)
(* CommandTransaction (command/mod.rs)                                     *)
(***************************************************************************)
COMPLETE_RESPONSE_LENGTH == 16

\* 0x0a6fe000
COMPLETE_RESPONSE_MAGIC == 175104000

\* size_of::<u32>()
WordSize == 4

Byte == 256

\* u32::to_le_bytes of the u32 x
ToLeBytes(x) ==
    <<x.lo % Byte, x.lo \div Byte, x.hi % Byte, x.hi \div Byte>>

\* u32::from_le_bytes
FromLeBytes(b) ==
    [hi |-> b[3] + b[4] * Byte, lo |-> b[1] + b[2] * Byte]

\* the four bytes read most significant first
FromBufferBigEndian(bytes) ==
    [hi |-> bytes[2] + bytes[1] * Byte, lo |-> bytes[4] + bytes[3] * Byte]

\* impl FromBuffer for u32 (lib.rs:116-123)
FromBuffer(bytes) ==
    FromLeBytes(SubSeq(bytes, 1, WordSize))

\* A byte buffer: its length and its first bytes (the rest is not looked at)
HeadLength == 8

Buffer(len, head) ==
    [len |-> len, head |-> head]

EmptyBuffer == Buffer(0, <<>>)

\* &buffer[from..to]
Slice(buffer, from, to) ==
    SubSeq(buffer.head, from + 1, to)

\* Error (lib.rs:58-87)
NoError == [name |-> "none", a |-> 0, b |-> 0]

UsbTransferError == [name |-> "UsbTransfer", a |-> 0, b |-> 0]

UsbError == [name |-> "Usb", a |-> 0, b |-> 0]

SendError(actual, size) == [name |-> "Send", a |-> actual, b |-> size]

ReceiveError(len, min) == [name |-> "Receive", a |-> len, b |-> min]

InvalidSequence(received, expected) ==
    [name |-> "InvalidSequence", a |-> received, b |-> expected]

PrematureComplete == [name |-> "PrematureComplete", a |-> 0, b |-> 0]

Ok(v) == [ok |-> TRUE, value |-> v, error |-> NoError]

Err(e) == [ok |-> FALSE, value |-> EmptyBuffer, error |-> e]

\* Command<COMMAND_ID, MAX_RESPONSE_LENGTH, MIN_RESPONSE_LENGTH, NPARAM>
Command(id, max, min, nparam, seq) ==
    [COMMAND_ID |-> id, MAX_RESPONSE_LENGTH |-> max,
     MIN_RESPONSE_LENGTH |-> min, NPARAM |-> nparam, has_sequence |-> seq]

COLOR_SETTING_RESPONSE_SIZE == 16

read_firware_versions_command == Command(2, 512, 512, 0, TRUE)

set_stream_state_command == Command(43, 0, 0, 1, TRUE)

color_setting_command ==
    Command(62, COLOR_SETTING_RESPONSE_SIZE, COLOR_SETTING_RESPONSE_SIZE, 4, FALSE)

led_setting_command == Command(75, 0, 0, 4, FALSE)

Commands ==
    {read_firware_versions_command, set_stream_state_command,
     color_setting_command, led_setting_command}

\* Command::size (mod.rs:184-186)
CommandSize(command) ==
    (5 + command.NPARAM) * WordSize

\* a counter that also advances for a command that opts out of sequencing
AssignSequenceAlways(counter, command) ==
    [counter |-> counter + 1,
     sent |-> IF command.has_sequence THEN counter + 1 ELSE 0]

\* mod.rs:74-79
AssignSequence(counter, command) ==
    IF command.has_sequence
    THEN [counter |-> counter + 1, sent |-> counter + 1]
    ELSE [counter |-> counter, sent |-> 0]

Transfer(op, endpoint, seq, status, buffer) ==
    [op |-> op, endpoint |-> endpoint, sequence |-> seq, status |-> status,
     buffer |-> buffer]

ClearHalt(endpoint, halt) ==
    Transfer("clear_halt", endpoint, 0, IF halt THEN "ok" ELSE "fault",
             EmptyBuffer)

\* an error path that clears the halt whatever the error, to compare with
TransferFailureAlwaysClears(endpoint, outcome) ==
    [log |-> <<ClearHalt(endpoint, outcome.halt)>>,
     error |-> IF outcome.halt THEN UsbTransferError ELSE UsbError]

\* the error path of a transfer (mod.rs:87-93, 114-120)
TransferFailure(endpoint, outcome) ==
    IF outcome.status = "stall"
    THEN [log |-> <<ClearHalt(endpoint, outcome.halt)>>,
          error |-> IF outcome.halt THEN UsbTransferError ELSE UsbError]
    ELSE [log |-> <<>>, error |-> UsbTransferError]

\* CommandTransaction::send (mod.rs:65-101)
Send(counter, command, out) ==
    LET a == AssignSequence(counter, command)
        write == Transfer("bulk_out", "out", a.sent, out.status, EmptyBuffer)
        failure == TransferFailure("out", out)
    IN  IF out.status # "ok"
        THEN [sequence |-> a.counter, log |-> <<write>> \o failure.log,
              result |-> Err(failure.error)]
        ELSE [sequence |-> a.counter, log |-> <<write>>,
              result |-> IF out.actual # CommandSize(command)
                         THEN Err(SendError(out.actual, CommandSize(command)))
                         ELSE Ok(a.sent)]

\* CommandTransaction::receive (mod.rs:103-128)
Receive(max_length, min_length, in) ==
    LET read == Transfer("bulk_in", "in", 0, in.status,
                         IF in.status = "ok" THEN in.buffer ELSE EmptyBuffer)
        failure == TransferFailure("in", in)
    IN  IF in.status # "ok"
        THEN [log |-> <<read>> \o failure.log, result |-> Err(failure.error)]
        ELSE [log |-> <<read>>,
              result |-> IF in.buffer.len < min_length
                         THEN Err(ReceiveError(in.buffer.len, min_length))
                         ELSE Ok(in.buffer)]

\* CommandTransaction::check_complete_response (mod.rs:130-142)
CheckCompleteResponse(result, seq) ==
    IF /\ result.len = COMPLETE_RESPONSE_LENGTH
       /\ FromBuffer(Slice(result, 0, 4)) = ToLimbs(COMPLETE_RESPONSE_MAGIC)
       /\ FromBuffer(Slice(result, 4, 8)) # ToLimbs(seq)
    THEN Err(InvalidSequence(FromBuffer(Slice(result, 4, 8)), ToLimbs(seq)))
    ELSE Ok(EmptyBuffer)

\* CommandTransaction::execute (mod.rs:32-63)
Execute(counter, command, out, first, complete) ==
    LET s == Send(counter, command, out)
        sent == s.result.value
        hasBody == command.MAX_RESPONSE_LENGTH > 0
        r1 == Receive(command.MAX_RESPONSE_LENGTH, command.MIN_RESPONSE_LENGTH,
                      first)
        log1 == IF hasBody THEN s.log \o r1.log ELSE s.log
        result == IF hasBody THEN r1.result.value ELSE EmptyBuffer
        r2 == Receive(COMPLETE_RESPONSE_LENGTH, COMPLETE_RESPONSE_LENGTH,
                      complete)
        c2 == CheckCompleteResponse(r2.result.value, sent)
        done(res, log) == [sequence |-> s.sequence, result |-> res, log |-> log]
    IN  IF ~s.result.ok THEN done(Err(s.result.error), s.log)
        ELSE IF hasBody /\ ~r1.result.ok THEN done(Err(r1.result.error), log1)
        ELSE IF hasBody /\ ~CheckCompleteResponse(result, sent).ok
             THEN done(Err(PrematureComplete), log1)
        ELSE IF ~r2.result.ok THEN done(Err(r2.result.error), log1 \o r2.log)
        ELSE IF ~c2.ok THEN done(Err(c2.error), log1 \o r2.log)
        ELSE done(Ok(result), log1 \o r2.log)

(***************************************************************************)
(* The device end of the command endpoints: what a transfer can come back  *)
(* with.                                                                   *)
(***************************************************************************)
Outcome(status, actual, buffer, halt) ==
    [status |-> status, actual |-> actual, buffer |-> buffer, halt |-> halt]

Failures ==
    {Outcome("stall", 0, EmptyBuffer, h) : h \in BOOLEAN}
    \cup {Outcome("fault", 0, EmptyBuffer, TRUE)}

SendOutcomes(command) ==
    {Outcome("ok", n, EmptyBuffer, TRUE) :
        n \in {CommandSize(command), CommandSize(command) - 1}}
    \cup Failures

\* a completion response: the magic, then the echoed sequence
Completion(seq) ==
    Buffer(COMPLETE_RESPONSE_LENGTH,
           ToLeBytes(ToLimbs(COMPLETE_RESPONSE_MAGIC)) \o ToLeBytes(ToLimbs(seq)))

\* sixteen bytes that start 0a 6f e0 00: the magic, most significant byte first
PrintedCompletion(seq) ==
    Buffer(COMPLETE_RESPONSE_LENGTH,
           <<10, 111, 224, 0>> \o ToLeBytes(ToLimbs(seq)))

\* len bytes of payload
Body(len) ==
    Buffer(len, [i \in 1..(IF len < HeadLength THEN len ELSE HeadLength) |-> 0])

Echoes(sent) ==
    {sent, sent + 1} \cup ({sent - 1} \cap Nat)

Reads(max_length, min_length, sent) ==
    {Outcome("ok", 0, b, TRUE) :
        b \in {Body(max_length)}
              \cup (IF min_length > 0 THEN {Body(min_length - 1)} ELSE {})
              \cup (IF max_length >= COMPLETE_RESPONSE_LENGTH
                    THEN {Completion(e) : e \in Echoes(sent)}
                         \cup {PrintedCompletion(e) : e \in Echoes(sent)}
                         \cup {Body(COMPLETE_RESPONSE_LENGTH)}
                    ELSE {})}
    \cup Failures


\* one execute call, with the outcomes of its transfers
ExecuteCommand ==
    /\ sequence < MaxCommands
    /\ \E command \in Commands :
       \E out \in SendOutcomes(command) :
       \E first \in Reads(command.MAX_RESPONSE_LENGTH,
                          command.MIN_RESPONSE_LENGTH,
                          AssignSequence(sequence, command).sent),
          complete \in Reads(COMPLETE_RESPONSE_LENGTH, COMPLETE_RESPONSE_LENGTH,
                             AssignSequence(sequence, command).sent) :
       \E r \in {Execute(sequence, command, out, first, complete)} :
          /\ sequence' = r.sequence
          /\ cmdResult' = Some(r.result)
          /\ cmdCall' = Some([command |-> command, before |-> sequence,
                              sent |-> r.log[1].sequence, out |-> out])
          /\ cmdLog' = r.log
          /\ cmdAssigned' = IF command.has_sequence
                            THEN Append(cmdAssigned, r.log[1].sequence)
                            ELSE cmdAssigned
    /\ UNCHANGED <<checked, depthVars, opVars, syncVars, colorVars, encoded, procVars>>

\* the completion buffers and originating sequences check_complete_response
\* is applied to on its own
CheckedSequences == {0, 1, 41, 42, 43, 44}

CheckedBuffers ==
    UNION {{Completion(e), PrintedCompletion(e),
            [Completion(e) EXCEPT !.len = COMPLETE_RESPONSE_LENGTH - 1],
            [Completion(e) EXCEPT !.len = COMPLETE_RESPONSE_LENGTH + 1]} :
           e \in CheckedSequences}
    \cup {Body(COMPLETE_RESPONSE_LENGTH)}

ValidateCompletion ==
    /\ checked.state = "drawn"
    /\ checked' = [checked EXCEPT
                     !.state = "validated",
                     !.result = CheckCompleteResponse(checked.buffer,
                                                      checked.sequence)]
    /\ UNCHANGED <<cmdVars, depthVars, opVars, syncVars, colorVars, encoded, procVars>>

\* CommandTransaction::new (mod.rs:23-30)
CommandNew ==
    /\ sequence = 0
    /\ cmdResult = None
    /\ cmdCall = None
    /\ cmdLog = <<>>
    /\ cmdAssigned = <<>>

NothingChecked ==
    checked = [state |-> "validated", buffer |-> EmptyBuffer, sequence |-> 0,
               result |-> Ok(EmptyBuffer)]

(***************************************************************************)
(* Device<Opened> (device/opened.rs)                                       *)
(***************************************************************************)
\* the READ_STATUS polls of start (opened.rs:314)
StatusPolls == 50

OpOk(v) == [ok |-> TRUE, error |-> "none", value |-> v]

OpErr(e) == [ok |-> FALSE, error |-> e, value |-> None]

\* A step of an operation: a control transfer or a command sent to the
\* device, or a local check of what came back; error is what its failure
\* returns.
Step(name, kind, error) ==
    [name |-> name, kind |-> kind, error |-> error]

Control(name) == Step(name, "control", "UsbTransfer")

Execution(name) == Step(name, "command", "Command")

Local(name, error) == Step(name, "local", error)

\* the transfers and commands among steps, in order
RECURSIVE Issued(_)
Issued(steps) ==
    IF steps = <<>> THEN <<>>
    ELSE (IF Head(steps).kind = "local" THEN <<>> ELSE <<Head(steps).name>>)
         \o Issued(Tail(steps))

\* steps run in order; step failAt, if any, fails and ends the run (the ? operator)
RunSteps(steps, failAt) ==
    [log |-> Issued(IF failAt = 0 THEN steps ELSE SubSeq(steps, 1, failAt)),
     result |-> IF failAt = 0 THEN OpOk(None) ELSE OpErr(steps[failAt].error)]

\* a READ_STATUS command, with the low bit of the reply it gets when it
\* succeeds (opened.rs:315-323)
StatusBusy == "READ_STATUS(0x090000) -> 0"

StatusReady == "READ_STATUS(0x090000) -> 1"

\* the number of READ_STATUS commands when reply readyAt is the first with
\* the low bit set (0: none is) (opened.rs:314-327)
PollsIssued(readyAt) ==
    IF readyAt = 0 THEN StatusPolls ELSE readyAt

\* opened.rs:266-337
StartSteps(readyAt) ==
    <<Control("SET_FEATURE_FUNCTION_SUSPEND(false)"),
      Execution("READ_SERIAL_NUMBER"),
      Local("serial_number", "SerialNumber"),
      Execution("READ_DEPTH_PARAMS"),
      Local("IrParams::try_from", "UnalignedRead"),
      Execution("READ_RGB_PARAMS"),
      Local("ColorParams::try_from", "UnalignedRead"),
      Execution("READ_P0_TABLES"),
      Local("P0Tables::try_from", "UnalignedRead"),
      Execution("SET_MODE(true, 0x00640064)"),
      Execution("SET_MODE(false, 0)")>>
    \o [i \in 1..PollsIssued(readyAt) |->
           Execution(IF i = readyAt THEN StatusReady ELSE StatusBusy)]
    \o <<Execution("INIT_STREAMS"),
         Control("SET_ALT_SETTING(1)"),
         Execution("SET_STREAMING(true)")>>

\* Device<Opened>::start (opened.rs:259-340)
StartCall(run, readyAt, failAt) ==
    IF run
    THEN [running |-> run, result |-> OpOk(None), log |-> <<>>]
    ELSE [running |-> TRUE,
          result |-> RunSteps(StartSteps(readyAt), failAt).result,
          log |-> RunSteps(StartSteps(readyAt), failAt).log]

\* opened.rs:591-624
StopSteps ==
    <<Control("SET_ALT_SETTING(0)"),
      Execution("SET_MODE(true, 0x00640064)"),
      Execution("SET_MODE(false, 0)"),
      Execution("STOP"),
      Execution("SET_STREAMING(false)"),
      Execution("SET_MODE(true, 0)"),
      Execution("SET_MODE(false, 0)"),
      Execution("SET_MODE(true, 0)"),
      Execution("SET_MODE(false, 0)"),
      Control("SET_FEATURE_FUNCTION_SUSPEND(true)")>>

\* stop without its early return, to compare with
StopCallAlways(run, failAt) ==
    [running |-> FALSE,
     result |-> RunSteps(StopSteps, failAt).result,
     log |-> RunSteps(StopSteps, failAt).log]

\* Device<Opened>::stop (opened.rs:584-625)
StopCall(run, failAt) ==
    IF ~run
    THEN [running |-> run, result |-> OpOk(None), log |-> <<>>]
    ELSE [running |-> FALSE,
          result |-> RunSteps(StopSteps, failAt).result,
          log |-> RunSteps(StopSteps, failAt).log]

\* the index of the last transfer that completed a packet, if any
\* the last completion whose parse returned a packet
LastPacket(completions) ==
    LET with == {i \in 1..Len(completions) : completions[i] = "packet"}
    IN  IF with = {} THEN None
        ELSE Some(CHOOSE i \in with : \A j \in with : j <= i)

FirstError(completions) ==
    LET bad == {i \in 1..Len(completions) : completions[i] = "error"}
    IN  IF bad = {} THEN 0 ELSE CHOOSE i \in bad : \A j \in bad : i <= j

\* if let Some(packet) = parse(..) { result = Some(packet) }
\* (opened.rs:356-362, 384-386), keeping the first packet to compare with
ParsedPacketFirst(result, parsed) ==
    IF result # None THEN result ELSE parsed

\* if let Some(packet) = parse(..) { result = Some(packet) }
\* (opened.rs:356-362, 384-386)
ParsedPacket(result, parsed) ==
    IF parsed # None THEN parsed ELSE result

\* while queue.pending() > 0 { parse(queue.next_complete().into_result()?) }
\* (opened.rs:355-363, 382-388) from completion i on: a packet is named
\* by the completion whose parse returned it
RECURSIVE PollLoop(_, _, _, _)
PollLoop(completions, i, result, fed) ==
    IF i > Len(completions)
    THEN [result |-> OpOk(result), fed |-> fed, left |-> 0]
    ELSE IF completions[i] = "error"
    THEN [result |-> OpErr("UsbTransfer"), fed |-> fed,
          left |-> Len(completions) - i]
    ELSE PollLoop(completions, i + 1,
                  ParsedPacket(result, IF completions[i] = "packet"
                                       THEN Some(i) ELSE None),
                  Append(fed, i))

\* Device<Opened>::poll_color_packet / poll_depth_packet (opened.rs:342-391):
\* the batch is submitted, then every pending transfer is taken back and
\* parsed in completion order
PollCall(run, submit, waiting, completions) ==
    IF ~run
    THEN [result |-> OpErr("OnlyWhileRunning"), log |-> <<>>, fed |-> <<>>,
          left |-> waiting]
    ELSE LET loop == PollLoop(completions, 1, None, <<>>)
         IN  [log |-> [i \in 1..MaxTransfers |-> submit],
              result |-> loop.result, fed |-> loop.fed, left |-> loop.left]

\* what a setting operation does once past its running check: the
\* RGB_SETTING commands (opened.rs:452-460, 491-501, 521-536)
SettingSteps(count) ==
    [i \in 1..count |-> Execution("RGB_SETTING")]

\* set_color_auto_exposure, set_color_semi_auto_exposure,
\* set_color_manual_exposure (opened.rs:444-539)
ExposureCall(run, count, failAt) ==
    IF ~run
    THEN [result |-> OpErr("OnlyWhileRunning"), log |-> <<>>]
    ELSE RunSteps(SettingSteps(count), failAt)

\* Device<Opened>::set_color_setting (opened.rs:542-553)
SetColorSettingCall(run, failAt) ==
    RunSteps(SettingSteps(1), failAt)

\* Device<Opened>::get_color_setting (opened.rs:556-567)
GetColorSettingCall(run, failAt) ==
    RunSteps(SettingSteps(1) \o <<Local("ColorSettingResponse::read_unaligned",
                                        "UnalignedRead")>>, failAt)

\* an operation other than start and stop: running is left alone
Operation(op, r) ==
    /\ handle = "opened"
    /\ opCall' = [op |-> op, wasRunning |-> running]
    /\ opResult' = r.result
    /\ opLog' = r.log
    /\ UNCHANGED <<running, handle, pending>>

Lifecycle(op, r) ==
    /\ handle = "opened"
    /\ opCall' = [op |-> op, wasRunning |-> running]
    /\ running' = r.running
    /\ opResult' = r.result
    /\ opLog' = r.log
    /\ UNCHANGED <<handle, pending>>

\* opened.rs:630-641, with the first step in another order to compare with
CloseStepsShutdownFirst ==
    <<Execution("SHUTDOWN"),
      Execution("SET_MODE(true, 0x00640064)"),
      Execution("SET_MODE(false, 0)")>>

\* opened.rs:630-641
CloseSteps ==
    <<Execution("SET_MODE(true, 0x00640064)"),
      Execution("SET_MODE(false, 0)"),
      Execution("SHUTDOWN")>>

\* Device<Opened>::close (opened.rs:628-648): self is taken by value, so a
\* failure drops the device and success turns it into Device<Closed>
CloseCall(run, stopFailAt, failAt) ==
    LET stop == StopCall(run, stopFailAt)
        rest == RunSteps(CloseSteps, failAt)
    IN  IF ~stop.result.ok
        THEN [running |-> stop.running, handle |-> "dropped",
              result |-> stop.result, log |-> stop.log]
        ELSE [running |-> stop.running,
              handle |-> IF rest.result.ok THEN "closed" ELSE "dropped",
              result |-> rest.result, log |-> stop.log \o rest.log]

ReadyAt == {0, 1, 2, StatusPolls}

Start ==
    /\ \E readyAt \in ReadyAt :
       \E failAt \in 0..Len(StartSteps(readyAt)) :
           Lifecycle("start", StartCall(running, readyAt, failAt))
    /\ UNCHANGED <<depthVars, cmdVars, checked, syncVars, colorVars, encoded, procVars>>

Stop ==
    /\ \E failAt \in 0..Len(StopSteps) :
           Lifecycle("stop", StopCall(running, failAt))
    /\ UNCHANGED <<depthVars, cmdVars, checked, syncVars, colorVars, encoded, procVars>>

Close ==
    /\ handle = "opened"
    /\ \E stopFailAt \in 0..Len(StopSteps), failAt \in 0..Len(CloseSteps) :
       \E r \in {CloseCall(running, stopFailAt, failAt)} :
           /\ opCall' = [op |-> "close", wasRunning |-> running]
           /\ running' = r.running
           /\ handle' = r.handle
           /\ opResult' = r.result
           /\ opLog' = r.log
    /\ UNCHANGED <<pending, depthVars, cmdVars, checked, syncVars, colorVars,
                   encoded, procVars>>

\* Device<Closed>::open (closed.rs:16-24): Opened::new on the same device
Open ==
    /\ handle = "closed"
    /\ \E ok \in BOOLEAN :
           /\ handle' = IF ok THEN "opened" ELSE "dropped"
           /\ opResult' = IF ok THEN OpOk(None) ELSE OpErr("Usb")
    /\ opCall' = [op |-> "open", wasRunning |-> running]
    /\ running' = FALSE
    /\ opLog' = <<>>
    /\ pending' = [color |-> 0, ir |-> 0]
    /\ UNCHANGED <<depthVars, cmdVars, checked, syncVars, colorVars, encoded, procVars>>

\* one poll operation on a queue: the completions are those of the
\* transfers left pending by earlier calls and of the batch of this call
PollOperation(op, queue, submit) ==
    /\ handle = "opened"
    /\ \E c \in IF running
                THEN [1..(pending[queue] + MaxTransfers) ->
                         {"none", "packet", "error"}]
                ELSE {<<>>} :
       \E r \in {PollCall(running, submit, pending[queue], c)} :
           /\ r.left <= MaxPending
           /\ opCall' = [op |-> op, wasRunning |-> running,
                         completions |-> c, fed |-> r.fed]
           /\ opResult' = r.result
           /\ opLog' = r.log
           /\ pending' = [pending EXCEPT ![queue] = r.left]
    /\ UNCHANGED <<running, handle>>

PollColorPacket ==
    /\ PollOperation("poll_color_packet", "color", "BULK_IN(color)")
    /\ UNCHANGED <<depthVars, cmdVars, checked, syncVars, colorVars, encoded, procVars>>

PollDepthPacket ==
    /\ PollOperation("poll_depth_packet", "ir", "ISO_IN(ir)")
    /\ UNCHANGED <<depthVars, cmdVars, checked, syncVars, colorVars, encoded, procVars>>

SetColorAutoExposure ==
    /\ \E failAt \in 0..3 :
           Operation("set_color_auto_exposure", ExposureCall(running, 3, failAt))
    /\ UNCHANGED <<depthVars, cmdVars, checked, syncVars, colorVars, encoded, procVars>>

SetColorSemiAutoExposure ==
    /\ \E failAt \in 0..3 :
           Operation("set_color_semi_auto_exposure",
                     ExposureCall(running, 3, failAt))
    /\ UNCHANGED <<depthVars, cmdVars, checked, syncVars, colorVars, encoded, procVars>>

SetColorManualExposure ==
    /\ \E failAt \in 0..4 :
           Operation("set_color_manual_exposure", ExposureCall(running, 4, failAt))
    /\ UNCHANGED <<depthVars, cmdVars, checked, syncVars, colorVars, encoded, procVars>>

SetColorSetting ==
    /\ \E failAt \in 0..1 :
           Operation("set_color_setting", SetColorSettingCall(running, failAt))
    /\ UNCHANGED <<depthVars, cmdVars, checked, syncVars, colorVars, encoded, procVars>>

GetColorSetting ==
    /\ \E failAt \in 0..2 :
           Operation("get_color_setting", GetColorSettingCall(running, failAt))
    /\ UNCHANGED <<depthVars, cmdVars, checked, syncVars, colorVars, encoded, procVars>>

(***************************************************************************)
(* PacketSync (lib.rs:134-177)                                             *)
(***************************************************************************)
\* VecDeque::with_capacity(10) (lib.rs:143)
DequeCapacity == 10

\* the timestamp is all PacketSync reads of a packet (lib.rs:160)
Packet(timestamp) == [timestamp |-> timestamp]

ColorTimestamps == {95, 100, 105}

DepthTimestamps == {100, 105}

\* position(|depth_packet| depth_packet.timestamp >= color_packet.timestamp),
\* to compare with
PositionNotBefore(depth, color) ==
    LET later == {i \in 1..Len(depth) : depth[i].timestamp >= color.timestamp}
    IN  IF later = {} THEN None
        ELSE Some(CHOOSE i \in later : \A j \in later : i <= j)

\* iter().position(|depth_packet| depth_packet.timestamp >
\* color_packet.timestamp) (lib.rs:157-160), counted from 1
Position(depth, color) ==
    LET later == {i \in 1..Len(depth) : depth[i].timestamp > color.timestamp}
    IN  IF later = {} THEN None
        ELSE Some(CHOOSE i \in later : \A j \in later : i <= j)

\* PacketSync::poll_packets (lib.rs:155-171)
PollPacketsCall(color, depth) ==
    IF color = None
    THEN [color |-> color, depth |-> depth, result |-> None]
    ELSE LET position == Position(depth, Unwrap(color))
         IN  IF position = None
             THEN [color |-> color, depth |-> depth, result |-> None]
             ELSE [color |-> None,
                   \* drain(..position), then pop_front
                   depth |-> SubSeq(depth, Unwrap(position) + 1, Len(depth)),
                   result |-> Some(<<Unwrap(color),
                                     depth[Unwrap(position)]>>)]

SyncCalled(op) ==
    syncCall' = [op |-> op, color |-> color_packet, depth |-> depth_packet]

\* PacketSync::push_color_packet (lib.rs:147-149)
PushColorPacket ==
    /\ \E t \in ColorTimestamps : color_packet' = Some(Packet(t))
    /\ SyncCalled("push_color_packet")
    /\ syncResult' = None
    /\ UNCHANGED depth_packet
    /\ UNCHANGED <<depthVars, cmdVars, checked, opVars, colorVars, encoded, procVars>>

\* PacketSync::push_depth_packet (lib.rs:151-153)
PushDepthPacket ==
    /\ Len(depth_packet) < MaxDepthPackets
    /\ \E t \in DepthTimestamps : depth_packet' = Append(depth_packet, Packet(t))
    /\ SyncCalled("push_depth_packet")
    /\ syncResult' = None
    /\ UNCHANGED color_packet
    /\ UNCHANGED <<depthVars, cmdVars, checked, opVars, colorVars, encoded, procVars>>

PollPackets ==
    /\ \E r \in {PollPacketsCall(color_packet, depth_packet)} :
           /\ color_packet' = r.color
           /\ depth_packet' = r.depth
           /\ syncResult' = r.result
    /\ SyncCalled("poll_packets")
    /\ UNCHANGED <<depthVars, cmdVars, checked, opVars, colorVars, encoded, procVars>>

\* PacketSync::clear (lib.rs:173-176)
Clear ==
    /\ color_packet' = None
    /\ depth_packet' = <<>>
    /\ SyncCalled("clear")
    /\ syncResult' = None
    /\ UNCHANGED <<depthVars, cmdVars, checked, opVars, colorVars, encoded, procVars>>

\* PacketSync::new (lib.rs:140-145)
SyncNew ==
    /\ color_packet = None
    /\ depth_packet = <<>>
    /\ syncCall = [op |-> "new", color |-> None, depth |-> <<>>]
    /\ syncResult = None

(***************************************************************************)
(* ColorStreamParser (packet/parser/color.rs)                              *)
(***************************************************************************)
\* ColorStreamParser::CAPACITY (color.rs:48)
CAPACITY == 2097152

\* RawColorPacketHeader::size() (color.rs:5-9)
ColorHeaderSize == 8

\* RawColorPacketFooter::size() (color.rs:18-39)
ColorFooterSize == 56

\* '9999' (color.rs:73)
FooterMagic == 960051513

\* 'BBBB' (color.rs:73)
TrailingMagic == 1111638594

\* Bytes are kept as runs: len bytes that are either all fill or spelled out
\* in bytes.  A transfer is a sequence of runs, the memory a sequence of
\* transfers (Vec::extend joins them, color.rs:62).
Fill(len, byte) == [len |-> len, fill |-> byte, bytes |-> <<>>]

Explicit(bytes) == [len |-> Len(bytes), fill |-> 0, bytes |-> bytes]

RECURSIVE RunsLen(_)
RunsLen(runs) ==
    IF runs = <<>> THEN 0 ELSE Head(runs).len + RunsLen(Tail(runs))

RECURSIVE Flatten(_)
Flatten(transfers) ==
    IF transfers = <<>> THEN <<>>
    ELSE Head(transfers) \o Flatten(Tail(transfers))

\* runs[offset]
RECURSIVE ByteAt(_, _)
ByteAt(runs, offset) ==
    IF offset < Head(runs).len
    THEN IF Head(runs).bytes = <<>> THEN Head(runs).fill
         ELSE Head(runs).bytes[offset + 1]
    ELSE ByteAt(Tail(runs), offset - Head(runs).len)

\* the u32 or f32 bits at runs[offset..offset + 4] (read_unaligned on a
\* little-endian target, lib.rs:90-96)
WordAt(runs, offset) ==
    FromBuffer([i \in 1..WordSize |-> ByteAt(runs, offset + i - 1)])

\* RawColorPacketHeader::read_unaligned(&memory) (color.rs:77)
ReadColorHeader(runs) ==
    [sequence |-> WordAt(runs, 0), magic_header |-> WordAt(runs, 4)]

\* RawColorPacketFooter::read_unaligned(&memory[len - size..])
\* (color.rs:68-71)
ReadColorFooter(runs) ==
    LET at == RunsLen(runs) - ColorFooterSize
    IN  [magic_header |-> WordAt(runs, at),
         sequence |-> WordAt(runs, at + 4),
         filler_length |-> WordAt(runs, at + 8),
         timestamp |-> WordAt(runs, at + 20),
         exposure |-> WordAt(runs, at + 24),
         gain |-> WordAt(runs, at + 28),
         magic_footer |-> WordAt(runs, at + 32),
         packet_size |-> WordAt(runs, at + 36),
         gamma |-> WordAt(runs, at + 40)]

\* the limit one byte further, to compare with
OverflowsAtCapacity(mem, buffer) ==
    RunsLen(Flatten(mem)) + RunsLen(buffer) > CAPACITY + 1

\* color.rs:57
Overflows(mem, buffer) ==
    RunsLen(Flatten(mem)) + RunsLen(buffer) > CAPACITY

\* color.rs:73
MagicMissing(footer) ==
    \/ footer.magic_header # ToLimbs(FooterMagic)
    \/ footer.magic_footer # ToLimbs(TrailingMagic)

\* the comparison without the sequences, to compare with
MismatchIgnoringSequence(len, header, footer) ==
    \/ ToLimbs(len) # footer.packet_size
    \/ ~LeqNat(footer.filler_length, len - ColorHeaderSize - ColorFooterSize)

\* color.rs:79-82
Mismatch(len, header, footer) ==
    \/ ToLimbs(len) # footer.packet_size
    \/ header.sequence # footer.sequence
    \/ ~LeqNat(footer.filler_length, len - ColorHeaderSize - ColorFooterSize)

\* jpeg_buffer[eoi - 2] == 0xff && jpeg_buffer[eoi - 1] == 0xd9, jpeg_buffer
\* being &memory[8..] (color.rs:93, 102)
EoiAt(runs, eoi) ==
    /\ ByteAt(runs, ColorHeaderSize + eoi - 2) = 255
    /\ ByteAt(runs, ColorHeaderSize + eoi - 1) = 217

\* the loop leaving at its first match, to compare with
RECURSIVE JpegScanFirstMatch(_, _, _, _)
JpegScanFirstMatch(runs, length_no_filler, index, jpeg_length) ==
    IF index >= 4 \/ length_no_filler < index + 2 \/ jpeg_length # 0
    THEN jpeg_length
    ELSE JpegScanFirstMatch(runs, length_no_filler, index + 1,
                            IF EoiAt(runs, length_no_filler - index)
                            THEN length_no_filler - index ELSE jpeg_length)

\* for index in 0..4 { .. } from index on (color.rs:95-105)
RECURSIVE JpegScan(_, _, _, _)
JpegScan(runs, length_no_filler, index, jpeg_length) ==
    IF index >= 4 \/ length_no_filler < index + 2
    THEN jpeg_length
    ELSE JpegScan(runs, length_no_filler, index + 1,
                  IF EoiAt(runs, length_no_filler - index)
                  THEN length_no_filler - index ELSE jpeg_length)

\* ColorPacket (color.rs:112-119); jpeg_buffer[..jpeg_length].to_vec() is
\* kept as its length and its last two bytes
ColorPacket(runs, header, footer, jpeg_length) ==
    [sequence |-> header.sequence,
     timestamp |-> footer.timestamp,
     exposure |-> footer.exposure,
     gain |-> footer.gain,
     gamma |-> footer.gamma,
     jpeg_buffer |->
         [len |-> jpeg_length,
          last |-> <<ByteAt(runs, ColorHeaderSize + jpeg_length - 2),
                     ByteAt(runs, ColorHeaderSize + jpeg_length - 1)>>]]

\* ColorStreamParser::parse (color.rs:56-124)
ColorParse(mem, buffer) ==
    IF Overflows(mem, buffer)
    THEN [memory |-> <<>>, result |-> None, kind |-> "overflow"]
    ELSE
    LET extended == Append(mem, buffer)
        runs == Flatten(extended)
        len == RunsLen(runs)
    IN  IF len <= ColorHeaderSize + ColorFooterSize
        THEN [memory |-> extended, result |-> None, kind |-> "short"]
        ELSE
        LET footer == ReadColorFooter(runs)
            header == ReadColorHeader(runs)
        IN  IF MagicMissing(footer)
            THEN [memory |-> extended, result |-> None, kind |-> "magic"]
            ELSE IF Mismatch(len, header, footer)
            THEN [memory |-> <<>>, result |-> None, kind |-> "mismatch"]
            ELSE
            LET length_no_filler == len - ColorHeaderSize - ColorFooterSize
                                    - ToNat(footer.filler_length)
                jpeg_length == JpegScan(runs, length_no_filler, 0, 0)
            IN  IF jpeg_length = 0
                THEN [memory |-> <<>>, result |-> None, kind |-> "eoi"]
                ELSE [memory |-> <<>>, kind |-> "packet",
                      result |-> Some(ColorPacket(runs, header, footer,
                                                  jpeg_length))]

\* ---- the transfers the color endpoint delivers
\* A packet on the wire: header, JPEG body, the bytes that end it (EOI and
\* 0xa5 padding), filler, footer (color.rs:5-39).
WirePacket(l) ==
    <<Explicit(ToLeBytes(l.sequence) \o ToLeBytes(ToLimbs(TrailingMagic))),
      Fill(l.body, 0),
      Explicit(l.tail),
      Fill(l.filler, 90),
      Explicit(ToLeBytes(l.magic_header) \o ToLeBytes(l.footer_sequence)
               \o ToLeBytes(l.filler_length) \o ToLeBytes(ToLimbs(0))
               \o ToLeBytes(ToLimbs(0)) \o ToLeBytes(l.timestamp)
               \o ToLeBytes(l.exposure) \o ToLeBytes(l.gain)
               \o ToLeBytes(l.magic_footer) \o ToLeBytes(l.packet_size)
               \o ToLeBytes(l.gamma) \o ToLeBytes(ToLimbs(0))
               \o ToLeBytes(ToLimbs(0)) \o ToLeBytes(ToLimbs(0)))>>

\* the layout of a well-formed packet
Sound(seq, body, tail, filler) ==
    [sequence |-> ToLimbs(seq), footer_sequence |-> ToLimbs(seq),
     body |-> body, tail |-> tail, filler |-> filler,
     filler_length |-> ToLimbs(filler),
     magic_header |-> ToLimbs(FooterMagic),
     magic_footer |-> ToLimbs(TrailingMagic),
     packet_size |-> ToLimbs(ColorHeaderSize + body + Len(tail) + filler
                             + ColorFooterSize),
     timestamp |-> ToLimbs(100 + seq),
     exposure |-> [hi |-> 16256, lo |-> 0],
     gain |-> [hi |-> 16256, lo |-> 0],
     gamma |-> [hi |-> 16256, lo |-> 0]]

\* Packets with a long and with an empty body, for each end of a JPEG: EOI,
\* EOI and padding, two EOIs, none; and packets with one footer field off.
Layouts ==
    LET tails == {<<255, 217>>, <<255, 217, 165>>,
                  <<255, 217, 165, 165, 165>>, <<255, 217, 255, 217>>,
                  <<255, 217, 165, 165, 165, 165>>, <<217, 255>>, <<217>>,
                  <<>>}
        l == Sound(1, 40, <<255, 217>>, 4)
    IN  {Sound(1, 40, tail, 4) : tail \in tails}
        \cup {Sound(2, 0, tail, 0) : tail \in tails}
        \cup
        {[l EXCEPT !.footer_sequence = ToLimbs(2)],
         [l EXCEPT !.packet_size = ToLimbs(ToNat(l.packet_size) + 1)],
         [l EXCEPT !.filler_length = ToLimbs(47)],
         [l EXCEPT !.filler_length = [hi |-> Limb - 1, lo |-> Limb - 1]],
         [l EXCEPT !.magic_header = ToLimbs(TrailingMagic)],
         [l EXCEPT !.magic_footer = ToLimbs(FooterMagic)]}

\* &runs[..n]
RECURSIVE Take(_, _)
Take(runs, n) ==
    IF n = 0 \/ runs = <<>> THEN <<>>
    ELSE IF Head(runs).len <= n
    THEN <<Head(runs)>> \o Take(Tail(runs), n - Head(runs).len)
    ELSE <<[len |-> n, fill |-> Head(runs).fill,
            bytes |-> SubSeq(Head(runs).bytes, 1,
                             IF Head(runs).bytes = <<>> THEN 0 ELSE n)]>>

\* &runs[n..]
RECURSIVE Drop(_, _)
Drop(runs, n) ==
    IF n = 0 \/ runs = <<>> THEN runs
    ELSE IF Head(runs).len <= n
    THEN Drop(Tail(runs), n - Head(runs).len)
    ELSE <<[len |-> Head(runs).len - n, fill |-> Head(runs).fill,
            bytes |-> SubSeq(Head(runs).bytes, n + 1, Len(Head(runs).bytes))]>>
         \o Tail(runs)

\* Whole packets, a packet split over two transfers (in the header, in the
\* body, in the footer), an empty transfer, and transfers that fill the
\* memory and pass it.
ColorTransfers ==
    {WirePacket(l) : l \in Layouts}
    \cup {Take(WirePacket(Sound(1, 40, <<255, 217>>, 4)), n) : n \in {4, 30, 90}}
    \cup {Drop(WirePacket(Sound(1, 40, <<255, 217>>, 4)), n) : n \in {4, 30, 90}}
    \cup {<<>>, <<Fill(CAPACITY, 0)>>, <<Fill(CAPACITY + 1, 0)>>}

ParseColor ==
    /\ \E buffer \in ColorTransfers :
       \E r \in {ColorParse(colorMemory, buffer)} :
           /\ Len(r.memory) <= MaxColorTransfers
           /\ colorMemory' = r.memory
           /\ colorResult' = r.result
           /\ colorCall' = [kind |-> r.kind, memory |-> colorMemory,
                            buffer |-> buffer]
    /\ UNCHANGED <<depthVars, cmdVars, checked, opVars, syncVars, encoded, procVars>>

\* ColorStreamParser::new (color.rs:50-54)
ColorNew ==
    /\ colorMemory = <<>>
    /\ colorCall = [kind |-> "new", memory |-> <<>>, buffer |-> <<>>]
    /\ colorResult = None

(***************************************************************************)
(* Command::as_bytes (command/mod.rs:168-186)                              *)
(***************************************************************************)
\* MAGIC_NUMBER (mod.rs:145)
MAGIC_NUMBER == 100802569

\* for parameter in self.parameters { bytes.extend(parameter.to_le_bytes()) }
\* (mod.rs:177-179)
RECURSIVE ExtendWithWords(_)
ExtendWithWords(words) ==
    IF words = <<>> THEN <<>>
    ELSE ToLeBytes(Head(words)) \o ExtendWithWords(Tail(words))

\* the words most significant byte first, to compare with
AsBytesBigEndian(command, parameters, seq) ==
    LET words == <<ToLimbs(MAGIC_NUMBER), seq,
                   ToLimbs(command.MAX_RESPONSE_LENGTH),
                   ToLimbs(command.COMMAND_ID), ToLimbs(0)>> \o parameters
    IN  [i \in 1..(WordSize * Len(words)) |->
            ToLeBytes(words[(i - 1) \div WordSize + 1])
                [WordSize - ((i - 1) % WordSize)]]

\* Command::as_bytes (mod.rs:168-182); parameters is self.parameters
AsBytes(command, parameters, seq) ==
    ToLeBytes(ToLimbs(MAGIC_NUMBER))
    \o ToLeBytes(seq)
    \o ToLeBytes(ToLimbs(command.MAX_RESPONSE_LENGTH))
    \o ToLeBytes(ToLimbs(command.COMMAND_ID))
    \o [i \in 1..WordSize |-> 0]
    \o ExtendWithWords(parameters)

\* u32 values: 0, 7, 0x01020304, 0x80000000, 0xffffffff
Words ==
    {ToLimbs(0), ToLimbs(7), [hi |-> 258, lo |-> 772],
     [hi |-> Limb \div 2, lo |-> 0], [hi |-> Limb - 1, lo |-> Limb - 1]}

Serialize ==
    /\ encoded.state = "drawn"
    /\ encoded' = [encoded EXCEPT
                      !.state = "encoded",
                      !.bytes = AsBytes(encoded.command, encoded.parameters,
                                        encoded.sequence)]
    /\ UNCHANGED <<depthVars, cmdVars, checked, opVars, syncVars, colorVars,
                   procVars>>

(***************************************************************************)
(* CpuDepthProcessor (processor/depth/cpu.rs) and the depth back-ends'     *)
(* shared set_ir_params (processor/depth/mod.rs).  An f32 depth is held    *)
(* in thousandths of its unit: 500 is 0.5, 500000 is 500.0.                *)
(***************************************************************************)
\* Config::default (lib.rs:45-53)
ConfigDefault ==
    [min_depth |-> 500, max_depth |-> 4500,
     enable_bilateral_filter |-> TRUE, enable_edge_aware_filter |-> TRUE]

\* Config values: the default, and 1.0 m to 8.0 m without the filters
Configs ==
    {ConfigDefault,
     [min_depth |-> 1000, max_depth |-> 8000,
      enable_bilateral_filter |-> FALSE, enable_edge_aware_filter |-> FALSE]}

\* CpuDepthProcessor::set_config (cpu.rs:576-581)
SetConfigCall(p, config) ==
    [p EXCEPT !.min_depth = config.min_depth,
              !.max_depth = config.max_depth,
              !.enable_bilateral_filter = config.enable_bilateral_filter,
              !.enable_edge_filter = config.enable_edge_aware_filter]

\* the MIN_DEPTH and MAX_DEPTH the OpenCL back-ends compile their kernels
\* with (opencl.rs:149-150, opencl_kde.rs:159-160)
OpenClDepthRange(config) ==
    [MIN_DEPTH |-> config.min_depth * 1000,
     MAX_DEPTH |-> config.max_depth * 1000]

\* CpuDepthProcessor::new (cpu.rs:82-113): DepthProcessorParams::default
\* (settings.rs:248, 264-265), zeroed tables, then set_config of the
\* default Config
CpuDepthProcessorNew ==
    SetConfigCall([min_depth |-> 500000, max_depth |-> 4500000,
                   max_edge_count |-> 5000,
                   enable_bilateral_filter |-> TRUE,
                   enable_edge_filter |-> TRUE,
                   flip_ptables |-> TRUE,
                   lut11_to_16 |-> "zeros",
                   trig_table |-> [filled |-> FALSE, flipped |-> FALSE]],
                  ConfigDefault)

ProcessorNew ==
    /\ processor = CpuDepthProcessorNew
    /\ stageCall = [stage |-> "new"]

\* the border test of the filter stages (cpu.rs:270, 511)
Border(x, y) ==
    x < 1 \/ y < 1 \/ x > 510 \/ y > 422

\* CpuDepthProcessor::filter_pixel_stage2 (cpu.rs:498-572): edge stands for
\* the conjuncts of cond0 computed from the neighbours' depth and ir sums
FilterPixelStage2(p, x, y, raw_depth, edge, max_edge_test_ok) ==
    IF raw_depth >= p.min_depth /\ raw_depth <= p.max_depth
    THEN IF Border(x, y) THEN raw_depth
         ELSE IF 0 < raw_depth /\ edge THEN 0
         ELSE IF max_edge_test_ok /\ p.max_edge_count < 0 THEN 0
         ELSE raw_depth
    ELSE 0

\* pixels of the 512 x 424 image: corners, border and interior
Columns == {0, 1, 255, 510, 511}

Rows == {0, 1, 211, 212, 422, 423}

\* raw depths, in thousandths of a millimetre: 0, 0.4, 0.5, 2, 4.5 and
\* 4.6 mm, and 499, 500, 2000, 4500 and 4501 mm
RawDepths ==
    {0, 400, 500, 2000, 4500, 4600,
     499000, 500000, 2000000, 4500000, 4501000}

SetConfig ==
    /\ \E config \in Configs :
           /\ processor' = SetConfigCall(processor, config)
           /\ stageCall' = [stage |-> "set_config", config |-> config,
                            opencl |-> OpenClDepthRange(config)]
    /\ UNCHANGED <<depthVars, cmdVars, checked, opVars, syncVars, colorVars,
                   encoded>>

\* one pixel of the edge-aware stage of process (cpu.rs:676-685)
FilterStage2 ==
    /\ processor.enable_edge_filter
    /\ \E x \in Columns, y \in Rows, raw_depth \in RawDepths,
          edge \in BOOLEAN, ok \in BOOLEAN :
           stageCall' = [stage |-> "filter_pixel_stage2", x |-> x, y |-> y,
                         raw_depth |-> raw_depth,
                         out |-> FilterPixelStage2(processor, x, y, raw_depth,
                                                   edge, ok)]
    /\ UNCHANGED <<processor, depthVars, cmdVars, checked, opVars, syncVars,
                   colorVars, encoded>>

\* LUT_SIZE (lib.rs:26)
LUT_SIZE == 2048

\* i16 arithmetic: the value an addition or negation wraps to
WrapI16(v) == ((v + 32768) % 65536) - 32768

\* let inc = 1 << (x / 128 - (x >= 128) as usize) with every block
\* doubling the one before, to compare with
LutIncDoubling(x) ==
    2 ^ (x \div 128)

\* let inc = 1 << (x / 128 - (x >= 128) as usize) (mod.rs:72)
LutInc(x) ==
    2 ^ ((x \div 128) - (IF x >= 128 THEN 1 ELSE 0))

\* the loop of set_ir_params (mod.rs:69-77) from acc.x up to stop; acc
\* holds x, y, the lut, and overflow: whether y + inc or -y left the i16
\* range
RECURSIVE LutLoop(_, _)
LutLoop(acc, stop) ==
    IF acc.x = stop THEN acc
    ELSE LutLoop([x |-> acc.x + 1,
                  y |-> WrapI16(acc.y + LutInc(acc.x)),
                  lut |-> [acc.lut EXCEPT ![acc.x] = acc.y,
                                          ![1024 + acc.x] = WrapI16(-acc.y)],
                  overflow |-> \/ acc.overflow
                               \/ WrapI16(-acc.y) # -acc.y
                               \/ WrapI16(acc.y + LutInc(acc.x))
                                     # acc.y + LutInc(acc.x)], stop)

\* the loop over 0..1024, run 128 entries at a time
RECURSIVE LutBlocks(_)
LutBlocks(acc) ==
    IF acc.x = 1024 THEN acc
    ELSE LutBlocks(LutLoop(acc, acc.x + 128))

\* the lut set_ir_params hands to set_lookup_table (mod.rs:53, 67-82); it
\* does not depend on the IrParams
BuiltLut ==
    LET loop == LutBlocks([x |-> 0, y |-> 0,
                           lut |-> [i \in 0..(LUT_SIZE - 1) |-> 0],
                           overflow |-> FALSE])
    IN  [lut |-> [loop.lut EXCEPT ![1024] = 32767],
         overflow |-> loop.overflow]

\* self.lut11_to_16[i]: zeroed by new (cpu.rs:87), copied from the lut of
\* set_ir_params by set_lookup_table (cpu.rs:604-606)
Lut11To16(p, i) ==
    IF p.lut11_to_16 = "built" THEN BuiltLut.lut[i] ELSE 0

\* A packet buffer that is zero but for one 11-bit field: the sample value
\* in bits 11 * field .. 11 * field + 10 of one row of one sub-image.  The
\* u16 at index of that row:
RowWord(data, index) ==
    LET o == 11 * data.field - 16 * index
    IN  IF o >= 16 \/ o <= -11 THEN 0
        ELSE IF o >= 0 THEN (data.value * 2 ^ o) % 65536
        ELSE data.value \div 2 ^ (-o)

\* ptr[index] after ptr = &data[298496 * sub..] as u16 and
\* ptr = &ptr[352 * i..] (cpu.rs:123-125)
PtrWord(data, sub, i, index) ==
    LET word == 352 * i + index
    IN  IF sub = data.sub /\ word \div 352 = data.row
        THEN RowWord(data, word % 352) ELSE 0

\* CpuDepthProcessor::decode_pixel_measurement (cpu.rs:115-138).  i1 has
\* no bit at or above 16 - r1zi and i2 none below, so i1 | i2 is their
\* sum; of i2 only the eleven low bits are computed, the mask keeps no
\* other.
DecodePixelMeasurement(p, data, sub, x, y) ==
    IF x < 1 \/ 510 < x \/ 423 < y
    THEN [read |-> FALSE, out |-> Lut11To16(p, 0)]
    ELSE LET bit == (x \div 4) + ((x % 4) * 128) * 11
             i == IF y < 212 THEN y + 212 ELSE 423 - y
             r1yi == bit \div 16
             r1zi == bit % 16
             i1 == PtrWord(data, sub, i, r1yi) \div 2 ^ r1zi
             n == 16 - r1zi
             i2 == IF n >= 11 THEN 0
                   ELSE (PtrWord(data, sub, i, r1yi + 1) % 2 ^ (11 - n)) * 2 ^ n
             sample == (i1 + i2) % 2048
         IN  [read |-> TRUE, bit |-> bit, r1yi |-> r1yi, r1zi |-> r1zi,
              row |-> i, sample |-> sample, out |-> Lut11To16(p, sample)]

\* the fields of a row that hold the sample
Fields == {0, 1, 2, 3, 127, 128, 129, 255, 256, 383, 384, 510, 511}

\* the pixel decoded and the one sample of the buffer, in the row and
\* sub-image read: every column against the all-ones sample in a field of
\* Fields, and column 1 against every sample value in the field it reads
DecodeInputs ==
    [x : 0..511, y : {0, 423}, sub : {0, 9}, field : Fields, value : {2047}]
    \cup [x : {1}, y : {0}, sub : {0}, field : {128},
          value : 0..(LUT_SIZE - 1)]

\* DepthProcessorTrait::set_ir_params (mod.rs:50-83) on the CPU back-end;
\* the x and z tables it fills are floating point and left out
SetIrParams ==
    /\ processor' = [processor EXCEPT !.lut11_to_16 = "built"]
    /\ UNCHANGED <<stageCall, depthVars, cmdVars, checked, opVars, syncVars, colorVars,
                   encoded>>

\* one decode_pixel_measurement of process_pixel_stage1, with the pixel
\* and the buffer drawn
DecodePixel ==
    /\ stageCall.stage = "drawn"
    /\ \E d \in {stageCall.input} :
       \E data \in {[sub |-> d.sub, field |-> d.field, value |-> d.value,
                      row |-> IF d.y < 212 THEN d.y + 212 ELSE 423 - d.y]} :
           stageCall' = [stage |-> "decode_pixel_measurement",
                         x |-> d.x, y |-> d.y, sub |-> d.sub, data |-> data,
                         lut |-> processor.lut11_to_16,
                         result |-> DecodePixelMeasurement(processor, data,
                                                           d.sub, d.x, d.y)]
    /\ UNCHANGED <<processor, depthVars, cmdVars, checked, opVars, syncVars,
                   colorVars, encoded>>

\* Mat (cpu.rs:15-18) built by Mat::from (cpu.rs:29-34) from a factory P0
\* plane of 512 x 424 entries, each entry named by its index
FactoryP0 ==
    [width |-> DEPTH_WIDTH, len |-> DEPTH_WIDTH * DEPTH_HEIGHT,
     buffer |-> [i \in 0..(DEPTH_WIDTH * DEPTH_HEIGHT - 1) |-> i]]

\* Mat::get (cpu.rs:36-38)
MatGet(mat, x, y) ==
    mat.buffer[x + y * mat.width]

\* Mat::horizontal_flip (cpu.rs:50-58): the chunks of width entries, in
\* reverse order, flattened
HorizontalFlip(mat) ==
    LET chunks == mat.len \div mat.width
    IN  [mat EXCEPT
             !.buffer = [i \in 0..(chunks * mat.width - 1) |->
                            mat.buffer[(chunks - 1 - (i \div mat.width))
                                          * mat.width + (i % mat.width)]]]

\* the entry of the factory plane whose phase fill_trig_table (cpu.rs:
\* 142-165) put at offset y * 512 + x of the trig tables, after
\* set_p0_tables (cpu.rs:583-597) flipped the plane or not
TrigTableP0(p, x, y) ==
    IF ~p.trig_table.filled THEN None
    ELSE Some(MatGet(IF p.trig_table.flipped
                     THEN HorizontalFlip(FactoryP0) ELSE FactoryP0, x, y))

\* the 3 x 3 loop of filter_pixel_stage1 for one frequency (cpu.rs:309-
\* 357) from its k-th turn on, k counting the turns from 1: j is the
\* kernel index, above[k] tells whether the neighbour passes
\* other_norm2 >= threshold and so takes a weight from the kernel
RECURSIVE Stage1Loop(_, _, _, _)
Stage1Loop(k, j, visits, above) ==
    IF k > 9 THEN visits
    ELSE LET yi == ((k - 1) \div 3) - 1
             xi == ((k - 1) % 3) - 1
         IN  IF yi = 0 /\ xi = 0
             THEN Stage1Loop(k + 1, j,
                             Append(visits, [xi |-> xi, yi |-> yi,
                                             kernel |-> j, weighted |-> TRUE]),
                             above)
             ELSE Stage1Loop(k + 1, j + 1,
                             Append(visits, [xi |-> xi, yi |-> yi,
                                             kernel |-> j,
                                             weighted |-> above[k]]),
                             above)

\* CpuDepthProcessor::filter_pixel_stage1 (cpu.rs:265-376): the kernel
\* entries it weights the pixels with, for each of the three frequencies
FilterPixelStage1(x, y, above) ==
    IF Border(x, y)
    THEN [passthrough |-> TRUE, visits |-> <<>>]
    ELSE [passthrough |-> FALSE,
          visits |-> [f \in 1..3 |-> Stage1Loop(1, 0, <<>>, above)]]

\* which neighbours pass the threshold: all, all but one, none
Aboves ==
    {[k \in 1..9 |-> k # n] : n \in 0..9} \cup {[k \in 1..9 |-> FALSE]}

\* the pixel of a stage 1 call and its neighbours
Stage1Inputs ==
    [x : Columns \cup {2, 128, 256, 384, 509}, y : Rows, above : Aboves]

\* CpuDepthProcessor::set_p0_tables (cpu.rs:583-597)
SetP0Tables ==
    /\ processor' = [processor EXCEPT
                        !.trig_table = [filled |-> TRUE,
                                        flipped |-> processor.flip_ptables]]
    /\ UNCHANGED <<stageCall, depthVars, cmdVars, checked, opVars, syncVars,
                   colorVars, encoded>>

\* the trig table entries process_measurement_triple reads for a pixel
\* (cpu.rs:178-187)
ProcessMeasurementTriple ==
    /\ stageCall.stage = "drawn"
    /\ stageCall' = [stage |-> "process_measurement_triple",
                     x |-> stageCall.input.x, y |-> stageCall.input.y,
                     flip_ptables |-> processor.flip_ptables,
                     p0 |-> TrigTableP0(processor, stageCall.input.x,
                                        stageCall.input.y)]
    /\ UNCHANGED <<processor, depthVars, cmdVars, checked, opVars, syncVars,
                   colorVars, encoded>>

\* one pixel of the bilateral filtering of process (cpu.rs:634-642)
FilterStage1 ==
    /\ stageCall.stage = "drawn"
    /\ processor.enable_bilateral_filter
    /\ stageCall' = [stage |-> "filter_pixel_stage1",
                     x |-> stageCall.input.x, y |-> stageCall.input.y,
                     result |-> FilterPixelStage1(stageCall.input.x,
                                                  stageCall.input.y,
                                                  stageCall.input.above)]
    /\ UNCHANGED <<processor, depthVars, cmdVars, checked, opVars, syncVars,
                   colorVars, encoded>>

NothingEncoded ==
    encoded = [state |-> "idle"]

\* Opened::new (opened.rs:111-130, 155)
OpenedNew ==
    /\ running = FALSE
    /\ handle = "opened"
    /\ opCall = [op |-> "new", wasRunning |-> FALSE]
    /\ opResult = OpOk(None)
    /\ opLog = <<>>
    /\ pending = [color |-> 0, ir |-> 0]

\* DepthStreamParser::new (depth.rs:32-40)
DepthNew ==
    /\ memory = ZeroMemory
    /\ worker = <<>>
    /\ processed_packets = None
    /\ current_sequence = 0
    /\ current_subsequence = 0
    /\ depthResult = None
    /\ depthReturned = <<>>
    /\ depthCall = [kind |-> "new", footer |-> None, cur |-> 0, mask |-> 0,
                    prevRun |-> EmptyRun]
    /\ depthRun = EmptyRun
    /\ depthWentBack = FALSE
    /\ depthPanic = "none"
    /\ devSub = 0
    /\ devPhase = 0
    /\ faults = 0

DepthIdle ==
    /\ DepthNew
    /\ overflowChecks = FALSE
    /\ devSeq = 0

InitDepth ==
    /\ DepthNew
    /\ overflowChecks \in BOOLEAN
    /\ devSeq \in 0..MaxSequence
    /\ CommandNew
    /\ NothingChecked
    /\ OpenedNew
    /\ SyncNew
    /\ ColorNew
    /\ NothingEncoded
    /\ ProcessorNew

NextDepth ==
    \/ ParseData
    \/ ParseTerminal
    \/ ParseCorruptTerminal
    \/ ParseEmpty
    \/ DeviceJump

SpecDepth == InitDepth /\ [][NextDepth]_vars

InitCmd ==
    /\ CommandNew
    /\ NothingChecked
    /\ DepthIdle
    /\ OpenedNew
    /\ SyncNew
    /\ ColorNew
    /\ NothingEncoded
    /\ ProcessorNew

NextCmd ==
    ExecuteCommand

SpecCmd == InitCmd /\ [][NextCmd]_vars

InitCheck ==
    /\ checked \in [state : {"drawn"}, buffer : CheckedBuffers,
                    sequence : CheckedSequences, result : {Ok(EmptyBuffer)}]
    /\ CommandNew
    /\ DepthIdle
    /\ OpenedNew
    /\ SyncNew
    /\ ColorNew
    /\ NothingEncoded
    /\ ProcessorNew

NextCheck ==
    ValidateCompletion

SpecCheck == InitCheck /\ [][NextCheck]_vars

InitDev ==
    /\ OpenedNew
    /\ CommandNew
    /\ NothingChecked
    /\ DepthIdle
    /\ SyncNew
    /\ ColorNew
    /\ NothingEncoded
    /\ ProcessorNew

NextDev ==
    \/ Start
    \/ Stop
    \/ PollColorPacket
    \/ PollDepthPacket
    \/ SetColorAutoExposure
    \/ SetColorSemiAutoExposure
    \/ SetColorManualExposure
    \/ SetColorSetting
    \/ GetColorSetting
    \/ Close
    \/ Open

SpecDev == InitDev /\ [][NextDev]_vars

InitWorker ==
    /\ DepthNew
    /\ overflowChecks \in BOOLEAN
    /\ devSeq = 0
    /\ CommandNew
    /\ NothingChecked
    /\ OpenedNew
    /\ SyncNew
    /\ ColorNew
    /\ NothingEncoded
    /\ ProcessorNew

NextWorker ==
    ParseSized

SpecWorker == InitWorker /\ [][NextWorker]_vars

InitConfig ==
    /\ ProcessorNew
    /\ DepthIdle
    /\ CommandNew
    /\ NothingChecked
    /\ OpenedNew
    /\ SyncNew
    /\ ColorNew
    /\ NothingEncoded

NextConfig ==
    \/ SetConfig
    \/ FilterStage2

SpecConfig == InitConfig /\ [][NextConfig]_vars

InitUnpack ==
    /\ processor = CpuDepthProcessorNew
    /\ stageCall \in [stage : {"drawn"}, input : DecodeInputs]
    /\ DepthIdle
    /\ CommandNew
    /\ NothingChecked
    /\ OpenedNew
    /\ SyncNew
    /\ ColorNew
    /\ NothingEncoded

NextUnpack ==
    \/ SetIrParams
    \/ DecodePixel

SpecUnpack == InitUnpack /\ [][NextUnpack]_vars

InitStage1 ==
    /\ processor = CpuDepthProcessorNew
    /\ stageCall \in [stage : {"drawn"}, input : Stage1Inputs]
    /\ DepthIdle
    /\ CommandNew
    /\ NothingChecked
    /\ OpenedNew
    /\ SyncNew
    /\ ColorNew
    /\ NothingEncoded

NextStage1 ==
    \/ SetP0Tables
    \/ ProcessMeasurementTriple
    \/ FilterStage1

SpecStage1 == InitStage1 /\ [][NextStage1]_vars

InitSync ==
    /\ SyncNew
    /\ ColorNew
    /\ NothingEncoded
    /\ OpenedNew
    /\ CommandNew
    /\ NothingChecked
    /\ DepthIdle
    /\ ProcessorNew

NextSync ==
    \/ PushColorPacket
    \/ PushDepthPacket
    \/ PollPackets
    \/ Clear

SpecSync == InitSync /\ [][NextSync]_vars

InitColor ==
    /\ ColorNew
    /\ SyncNew
    /\ NothingEncoded
    /\ OpenedNew
    /\ CommandNew
    /\ NothingChecked
    /\ DepthIdle
    /\ ProcessorNew

NextColor ==
    ParseColor

SpecColor == InitColor /\ [][NextColor]_vars

InitBytes ==
    /\ \E command \in Commands :
           encoded \in [state : {"drawn"}, command : {command},
                        parameters : [1..command.NPARAM -> Words],
                        sequence : Words, bytes : {<<>>}]
    /\ ColorNew
    /\ SyncNew
    /\ OpenedNew
    /\ CommandNew
    /\ NothingChecked
    /\ DepthIdle
    /\ ProcessorNew

NextBytes ==
    Serialize

SpecBytes == InitBytes /\ [][NextBytes]_vars

(***************************************************************************)
(* Claims about DepthStreamParser, checked under SpecDepth.                *)
(***************************************************************************)
Distinct(q) ==
    \A i, j \in 1..Len(q) : i # j => q[i] # q[j]

RunSubsequences(run) ==
    {run.subs[i].sub : i \in 1..Len(run.subs)}

AllSubsequences == 0..(SubPacketCount - 1)

\* ten accepted sub-packets with one sequence, subsequences 0..9
TenRun(run) ==
    Len(run.subs) = SubPacketCount /\ RunSubsequences(run) = AllSubsequences

\* every subsequence 0..9 accepted, and no other
CompleteRun(run) ==
    RunSubsequences(run) = AllSubsequences

\* the worker bytes the last sub-packet of subsequence k of the run came with
LastData(run, k) ==
    LET i == CHOOSE n \in 1..Len(run.subs) :
                 /\ run.subs[n].sub = k
                 /\ \A m \in (n + 1)..Len(run.subs) : run.subs[m].sub # k
    IN  run.subs[i].w

\* the accumulator that holds each sub-packet of the run at k * length
ExpectedBuffer(run) ==
    [lo \in Cells |->
        LET k == lo \div WORKER_CAPACITY
        IN  [w |-> LastData(run, k), off |-> lo - k * WORKER_CAPACITY]]

\* C1 as stated: no two DepthPackets returned over the life of the parser
\* carry the same sequence value, whatever the footers' sequence numbers do.
C1_NoSequenceReturnedTwice ==
    Distinct(depthReturned)

\* C1 amended: as long as no accepted footer carried a smaller sequence than
\* the accepted footer before it (sequence numbers may repeat in a row and
\* may skip, but not go backwards), no two returned DepthPackets carry the
\* same sequence value.
C1_DistinctWhileNotDecreasing ==
    ~depthWentBack => Distinct(depthReturned)

C1_Witness ==
    ~depthWentBack /\ Len(depthReturned) >= 2 /\ faults > 0

\* C2 as stated: a packet is returned only on an accepted footer whose
\* sequence differs from current_sequence, only with the mask at 0x3FF, and
\* then one sub-packet of each subsequence 0..9 (and of no other) was
\* accepted for that sequence since it last changed.
C2_OnlyCompleteFrames ==
    depthResult # None =>
        /\ Accepted(depthCall)
        /\ Unwrap(depthCall.footer).sequence # depthCall.cur
        /\ depthCall.mask = FullMask
        /\ RunSubsequences(depthCall.prevRun) = AllSubsequences

BeginsWithMagic(buffer) ==
    /\ Len(buffer.head) >= WordSize
    /\ SubSeq(buffer.head, 1, WordSize) =
           ToLeBytes(ToLimbs(COMPLETE_RESPONSE_MAGIC))

\* the sequence embedded in bytes 4..8, least significant byte first
EmbeddedSequence(buffer) ==
    FromLeBytes(SubSeq(buffer.head, WordSize + 1, 2 * WordSize))

\* the reads of the last execute that came back with a buffer
ReadsDone ==
    SelectSeq(cmdLog, LAMBDA t : t.op = "bulk_in" /\ t.status = "ok")

\* the last execute sent its command whole and its first read came back
FirstReadDone ==
    /\ Len(cmdLog) >= 2
    /\ cmdLog[1].status = "ok"
    /\ cmdLog[2].op = "bulk_in"
    /\ cmdLog[2].status = "ok"

PrematureCompletionRead ==
    /\ cmdCall # None
    /\ Unwrap(cmdCall).command.MAX_RESPONSE_LENGTH > 0
    /\ FirstReadDone
    /\ cmdLog[2].buffer.len = COMPLETE_RESPONSE_LENGTH
    /\ BeginsWithMagic(cmdLog[2].buffer)

\* C5 as stated: when the first read of a command with MAX_RESP > 0 comes
\* back as 16 bytes that begin with the completion magic, execute fails with
\* PrematureComplete whatever sequence the buffer embeds, and does not
\* return that buffer.
C5_PrematureCompleteDetected ==
    PrematureCompletionRead =>
        /\ ~Unwrap(cmdResult).ok
        /\ Unwrap(cmdResult).error = PrematureComplete

\* C6 as stated: execute returns Ok only if the final 16-byte read begins
\* with the completion magic and embeds the sequence that was sent.
C6_OkOnlyOnMatchingCompletion ==
    (cmdResult # None /\ Unwrap(cmdResult).ok) =>
        LET final == ReadsDone[Len(ReadsDone)].buffer
        IN  /\ final.len = COMPLETE_RESPONSE_LENGTH
            /\ BeginsWithMagic(final)
            /\ EmbeddedSequence(final) = ToLimbs(Unwrap(cmdCall).sent)

\* 0a 6f e0 00 2a 00 00 00 00 00 00 00 00 00 00 00
PrintedBuffer == PrintedCompletion(42)

\* 00 e0 6f 0a 2a 00 00 00 00 00 00 00 00 00 00 00
WireBuffer == Completion(42)

Validated(buffer, seq) ==
    /\ checked.state = "validated"
    /\ checked.buffer = buffer
    /\ checked.sequence = seq

\* C7 as stated: validating 0a 6f e0 00 2a 00 00 00 00 ... 00 succeeds for
\* originating sequence 42 and fails for 43 with InvalidSequence(42, 43).
C7_PrintedBufferValidates ==
    /\ Validated(PrintedBuffer, 42) => checked.result.ok
    /\ Validated(PrintedBuffer, 43) =>
           /\ ~checked.result.ok
           /\ checked.result.error = InvalidSequence(ToLimbs(42), ToLimbs(43))

\* C7 amended: the completion magic is read least significant byte first,
\* so it is the buffer 00 e0 6f 0a 2a 00 00 00 00 ... 00 that validates for
\* originating sequence 42 and fails for 43 with InvalidSequence(42, 43);
\* the buffer 0a 6f e0 00 2a 00 ... is not recognised as a completion and
\* passes validation for 42 and for 43 alike.
C7_WireBufferValidates ==
    /\ Validated(WireBuffer, 42) => checked.result.ok
    /\ Validated(WireBuffer, 43) =>
           /\ ~checked.result.ok
           /\ checked.result.error = InvalidSequence(ToLimbs(42), ToLimbs(43))
    /\ \A seq \in {42, 43} : Validated(PrintedBuffer, seq) => checked.result.ok

C7_Witness ==
    /\ Validated(WireBuffer, 43)
    /\ ~checked.result.ok

\* C8: the sequences given to sequenced commands are 1, 2, 3, ... in the
\* order of the execute calls, whether they succeed or fail, so none is
\* used twice; the counter is the last sequence given; a command that opts
\* out of sequencing is sent with sequence 0 and leaves the counter as it was.
C8_SequenceCounts ==
    /\ \A i \in 1..Len(cmdAssigned) : cmdAssigned[i] = i
    /\ sequence = Len(cmdAssigned)
    /\ cmdCall # None =>
           LET call == Unwrap(cmdCall)
           IN  /\ cmdLog[1].op = "bulk_out"
               /\ cmdLog[1].sequence = call.sent
               /\ call.command.has_sequence =>
                      call.sent = call.before + 1 /\ sequence = call.sent
               /\ ~call.command.has_sequence =>
                      call.sent = 0 /\ sequence = call.before

C8_Witness ==
    /\ cmdAssigned = <<1, 2>>
    /\ cmdCall # None
    /\ ~Unwrap(cmdCall).command.has_sequence
    /\ ~Unwrap(cmdResult).ok

(***************************************************************************)
(* Claims about Device<Opened>, checked under SpecDev.                     *)
(***************************************************************************)
\* C9 as stated: a start that fails returns with running still false.
C9_FailedStartLeavesStopped ==
    (opCall.op = "start" /\ ~opCall.wasRunning /\ ~opResult.ok) => ~running

GatedOperations ==
    {"poll_color_packet", "poll_depth_packet", "set_color_auto_exposure",
     "set_color_semi_auto_exposure", "set_color_manual_exposure",
     "set_color_setting", "get_color_setting"}

\* C10 as stated: called while running is false, every streaming and
\* per-camera-setting operation fails with OnlyWhileRunning and issues no
\* USB transfer or command.
C10_OnlyWhileRunning ==
    (opCall.op \in GatedOperations /\ ~opCall.wasRunning) =>
        /\ opResult = OpErr("OnlyWhileRunning")
        /\ opLog = <<>>


(***************************************************************************)
(* Claims about start, stop and close, checked under SpecDev.              *)
(***************************************************************************)
\* the READ_STATUS commands of the last operation, in order
StatusLog ==
    SelectSeq(opLog, LAMBDA name : name \in {StatusBusy, StatusReady})

NeverReady ==
    /\ Len(StatusLog) = StatusPolls
    /\ \A i \in 1..StatusPolls : StatusLog[i] = StatusBusy

\* the steps of start that follow the status polls (opened.rs:329-337)
AfterPolls ==
    {"INIT_STREAMS", "SET_ALT_SETTING(1)", "SET_STREAMING(true)"}

\* C11 (first half): start polls READ_STATUS at most StatusPolls times and
\* stops polling at the first reply with the low bit set.
C11_PollsBoundedAndStopAtReady ==
    opCall.op = "start" =>
        /\ Len(StatusLog) <= StatusPolls
        /\ \A i \in 1..Len(StatusLog) :
               StatusLog[i] = StatusReady => i = Len(StatusLog)

\* C11: start polls READ_STATUS at most StatusPolls times, stops at the first
\* reply with the low bit set, and when no reply of the StatusPolls has it,
\* start fails: it returns an error and issues none of the steps that follow
\* the polls.
C11_TimeoutIsFatal ==
    opCall.op = "start" =>
        /\ Len(StatusLog) <= StatusPolls
        /\ \A i \in 1..Len(StatusLog) :
               StatusLog[i] = StatusReady => i = Len(StatusLog)
        /\ NeverReady =>
               /\ ~opResult.ok
               /\ \A i \in 1..Len(opLog) : opLog[i] \notin AfterPolls

\* C12: stop on a device that is not running returns Ok, issues nothing and
\* leaves the device as it was; after any stop the device is not running, so
\* a further stop is of that kind.
C12_StopIsIdempotent ==
    opCall.op = "stop" =>
        /\ ~running
        /\ handle = "opened"
        /\ ~opCall.wasRunning => opResult = OpOk(None) /\ opLog = <<>>

\* a stop has found the device stopped
C12_Witness ==
    /\ opCall.op = "stop"
    /\ ~opCall.wasRunning
    /\ opResult.ok

IsPrefix(s, t) ==
    Len(s) <= Len(t) /\ s = SubSeq(t, 1, Len(s))

\* the transfers and commands of a close that meets no failure
CloseSequence(wasRunning) ==
    (IF wasRunning THEN Issued(StopSteps) ELSE <<>>)
    \o <<"SET_MODE(true, 0x00640064)", "SET_MODE(false, 0)", "SHUTDOWN">>

\* C13: close runs the stop sequence (nothing when the device is not
\* running), then SET_MODE(true, 0x00640064), SET_MODE(false, 0) and
\* SHUTDOWN; the first failure ends it with an error, and the closed device
\* is returned exactly when every step succeeded.
C13_CloseSequence ==
    opCall.op = "close" =>
        /\ IsPrefix(opLog, CloseSequence(opCall.wasRunning))
        /\ opResult.ok => opLog = CloseSequence(opCall.wasRunning)
        /\ opResult.ok <=> handle = "closed"
        /\ ~opResult.ok => handle = "dropped"
        /\ ~running

\* a running device was closed
C13_Witness ==
    /\ opCall.op = "close"
    /\ opCall.wasRunning
    /\ handle = "closed"
    /\ Len(opLog) = Len(StopSteps) + Len(CloseSteps)



(***************************************************************************)
(* Claims about PacketSync, checked under SpecSync.                        *)
(***************************************************************************)
\* the buffered depth packets later than the held color packet, as the
\* last call found them
LaterDepth ==
    IF syncCall.color = None THEN {}
    ELSE {i \in 1..Len(syncCall.depth) :
            syncCall.depth[i].timestamp > Unwrap(syncCall.color).timestamp}

FirstLater ==
    CHOOSE i \in LaterDepth : \A j \in LaterDepth : i <= j

\* C14: poll_packets returns a pair exactly when a color packet is held and
\* a buffered depth packet has a strictly greater timestamp: the held color
\* packet with the first such depth packet in deque order; that depth packet
\* and the ones before it are removed, the later ones stay in order and no
\* color packet is held.  Otherwise it returns nothing and changes nothing.
C14_PollPairsFirstLater ==
    syncCall.op = "poll_packets" =>
        IF LaterDepth # {}
        THEN /\ syncResult = Some(<<Unwrap(syncCall.color),
                                    syncCall.depth[FirstLater]>>)
             /\ depth_packet = SubSeq(syncCall.depth, FirstLater + 1,
                                      Len(syncCall.depth))
             /\ color_packet = None
        ELSE /\ syncResult = None
             /\ color_packet = syncCall.color
             /\ depth_packet = syncCall.depth

\* a poll dropped an earlier depth packet, returned one and kept a later one
C14_Witness ==
    /\ syncCall.op = "poll_packets"
    /\ syncResult # None
    /\ LaterDepth # {}
    /\ FirstLater > 1
    /\ depth_packet # <<>>

\* C15: PacketSync holds at most one color packet and at most
\* DequeCapacity depth packets, whatever was pushed and polled.
C15_DequeBounded ==
    /\ Len(color_packet) <= 1
    /\ Len(depth_packet) <= DequeCapacity

\* C15 (the color half): at most one color packet is held.
C15_OneColorPacket ==
    Len(color_packet) <= 1



(***************************************************************************)
(* Claims about ColorStreamParser, checked under SpecColor.                *)
(***************************************************************************)
\* the bytes the last parse call looked at: the memory it found with its
\* buffer appended
Assembled ==
    Flatten(Append(colorCall.memory, colorCall.buffer))

AssembledLen ==
    RunsLen(Assembled)

\* the last call got past the overflow and the length checks
FooterRead ==
    /\ colorCall.kind \notin {"new", "overflow"}
    /\ AssembledLen > ColorHeaderSize + ColorFooterSize

\* the assembled bytes have room for a header and a footer
HoldsHeaderAndFooter ==
    /\ colorCall.kind \notin {"new", "overflow"}
    /\ AssembledLen >= ColorHeaderSize + ColorFooterSize

\* where the footer says the filler begins, counted from the end of the
\* header
FillerStart ==
    AssembledLen - ColorHeaderSize - ColorFooterSize
    - ToNat(ReadColorFooter(Assembled).filler_length)

\* the candidate ends of the JPEG: 0..3 bytes before the filler, with an
\* EOI marker right before them
EoiCandidates ==
    {FillerStart - k : k \in {k \in 0..3 : FillerStart >= k + 2
                                          /\ EoiAt(Assembled, FillerStart - k)}}

\* C16: a returned ColorPacket has a jpeg_buffer of at least 2 bytes ending
\* in 0xff 0xd9, cut at the earliest of the candidate ends that lie 0..3
\* bytes before the filler.
C16_JpegEndsWithEoi ==
    colorResult # None =>
        LET jpeg == Unwrap(colorResult).jpeg_buffer
        IN  /\ jpeg.len >= 2
            /\ jpeg.last = <<255, 217>>
            /\ jpeg.len \in EoiCandidates
            /\ \A eoi \in EoiCandidates : jpeg.len <= eoi

\* a packet was cut at the earlier of two EOI markers
C16_Witness ==
    /\ colorResult # None
    /\ Cardinality(EoiCandidates) = 2
    /\ Unwrap(colorResult).jpeg_buffer.len = FillerStart - 2

\* the footer fields of the assembled bytes disagree with them
IntegrityFailure ==
    LET footer == ReadColorFooter(Assembled)
    IN  \/ ToLimbs(AssembledLen) # footer.packet_size
        \/ ReadColorHeader(Assembled).sequence # footer.sequence
        \/ footer.filler_length.hi >= Limb \div 2
        \/ ToNat(footer.filler_length)
              > AssembledLen - ColorHeaderSize - ColorFooterSize
        \/ EoiCandidates = {}

MagicFailure ==
    LET footer == ReadColorFooter(Assembled)
    IN  \/ footer.magic_header # ToLimbs(FooterMagic)
        \/ footer.magic_footer # ToLimbs(TrailingMagic)

\* C17: whenever parse, with bytes enough for header and footer, finds an
\* integrity failure (a magic missing, the length not packet_size, the
\* sequences differing, the filler not fitting, no EOI before the filler),
\* it clears the memory and returns nothing.
C17_FailureClears ==
    (HoldsHeaderAndFooter /\ (MagicFailure \/ IntegrityFailure)) =>
        colorMemory = <<>> /\ colorResult = None

\* C17, as the code has it: with more bytes than a header and a footer and
\* both magics in place, every other failure clears the memory and returns
\* nothing; with a magic missing, or with no more bytes than a header and a
\* footer, the bytes are not yet a packet: nothing is returned and they
\* stay in the memory.
C17_FailureClearsBehindMagic ==
    /\ (FooterRead /\ ~MagicFailure /\ IntegrityFailure) =>
           colorMemory = <<>> /\ colorResult = None
    /\ (FooterRead /\ MagicFailure) =>
           /\ colorMemory = Append(colorCall.memory, colorCall.buffer)
           /\ colorResult = None
    /\ (colorCall.kind \notin {"new", "overflow"} /\ ~FooterRead) =>
           /\ colorMemory = Append(colorCall.memory, colorCall.buffer)
           /\ colorResult = None

\* a packet whose header and footer sequences differ was thrown away after
\* a first transfer had been kept
C17_Witness ==
    /\ FooterRead
    /\ ~MagicFailure
    /\ ReadColorHeader(Assembled).sequence
         # ReadColorFooter(Assembled).sequence
    /\ colorMemory = <<>>

\* C18: the memory never holds more than CAPACITY bytes, and a call whose
\* transfer would take it past CAPACITY leaves the parser as new() does:
\* the memory empty, the transfer not kept, nothing returned.
C18_OverflowResets ==
    /\ RunsLen(Flatten(colorMemory)) <= CAPACITY
    /\ (colorCall.kind # "new"
        /\ RunsLen(Flatten(colorCall.memory)) + RunsLen(colorCall.buffer)
             > CAPACITY) =>
           colorMemory = <<>> /\ colorResult = None

\* a transfer came on top of a memory of exactly CAPACITY bytes
C18_Witness ==
    /\ RunsLen(Flatten(colorCall.memory)) = CAPACITY
    /\ RunsLen(colorCall.buffer) > 0
    /\ colorMemory = <<>>



(***************************************************************************)
(* DepthStreamParser after an overflow, checked under SpecDepth.           *)
(***************************************************************************)
\* C19 (the part about the worker): a parse call whose transfer overflows
\* the worker leaves the worker empty and returns nothing.
C19_OverflowClearsWorker ==
    depthCall.kind = "overflow" => worker = <<>> /\ depthResult = None

\* C19: after a parse call whose transfer overflows the worker the parser
\* is as DepthStreamParser::new() leaves it: the worker empty,
\* current_sequence 0, the subsequence mask 0, the memory zeroed, and the
\* call returns nothing.
C19_OverflowResets ==
    depthCall.kind = "overflow" =>
        /\ worker = <<>>
        /\ current_sequence = 0
        /\ current_subsequence = 0
        /\ memory = ZeroMemory
        /\ depthResult = None



(***************************************************************************)
(* Command::as_bytes, checked under SpecBytes.                             *)
(***************************************************************************)
\* the k-th 32-bit word of the encoded bytes, counted from 0, decoded
EncodedWord(k) ==
    FromBuffer(SubSeq(encoded.bytes, WordSize * k + 1, WordSize * k + WordSize))

\* C20: as_bytes(s) is (5 + NPARAM) * 4 bytes: the little-endian words
\* 0x06022009, s, MAX_RESP, command id, 0 and the parameters in order, so
\* that decoding the words gives back sequence, command id, maximum
\* response length and parameters; read_firmware_versions with s = 7 is
\* 09 20 02 06 07 00 00 00 00 02 00 00 02 00 00 00 00 00 00 00.
C20_AsBytesLayout ==
    /\ AsBytes(read_firware_versions_command, <<>>, ToLimbs(7))
         = <<9, 32, 2, 6, 7, 0, 0, 0, 0, 2, 0, 0, 2, 0, 0, 0, 0, 0, 0, 0>>
    /\ encoded.state = "encoded" =>
           /\ Len(encoded.bytes) = (5 + encoded.command.NPARAM) * 4
           /\ \A i \in 1..Len(encoded.bytes) : encoded.bytes[i] \in 0..255
           /\ EncodedWord(0) = [hi |-> 1538, lo |-> 8201]
           /\ EncodedWord(1) = encoded.sequence
           /\ ToNat(EncodedWord(2)) = encoded.command.MAX_RESPONSE_LENGTH
           /\ ToNat(EncodedWord(3)) = encoded.command.COMMAND_ID
           /\ EncodedWord(4) = [hi |-> 0, lo |-> 0]
           /\ \A k \in 1..encoded.command.NPARAM :
                  EncodedWord(4 + k) = encoded.parameters[k]

\* a command with four distinct-looking parameters was encoded with a
\* sequence above 2^31
C20_Witness ==
    /\ encoded.state = "encoded"
    /\ encoded.command = color_setting_command
    /\ encoded.sequence = [hi |-> Limb - 1, lo |-> Limb - 1]
    /\ encoded.parameters[1] = [hi |-> 258, lo |-> 772]
    /\ encoded.parameters[4] = ToLimbs(7)
    /\ Len(encoded.bytes) = 36



(***************************************************************************)
(* Transfer failures of execute, checked under SpecCmd.                    *)
(***************************************************************************)
BulkTransfers ==
    {i \in 1..Len(cmdLog) : cmdLog[i].op \in {"bulk_out", "bulk_in"}}

\* the least length the read at place i of the log is asked for: the
\* response body comes second when the command has one
MinLength(i) ==
    IF i = 2 /\ Unwrap(cmdCall).command.MAX_RESPONSE_LENGTH > 0
    THEN Unwrap(cmdCall).command.MIN_RESPONSE_LENGTH
    ELSE 16

\* C22: a stalled bulk-out write or bulk-in read is followed by one
\* clear-halt on the same endpoint and by no other transfer, and execute
\* fails; any other transport error ends the transaction with no
\* clear-halt and execute fails; a short write fails with Send and a read
\* shorter than the minimum with Receive.
C22_StallClearsHaltOnce ==
    cmdCall # None =>
        LET call == Unwrap(cmdCall)
            res == Unwrap(cmdResult)
        IN  /\ \A i \in BulkTransfers :
                   cmdLog[i].status = "stall" =>
                       /\ Len(cmdLog) = i + 1
                       /\ cmdLog[i + 1].op = "clear_halt"
                       /\ cmdLog[i + 1].endpoint = cmdLog[i].endpoint
                       /\ ~res.ok
                       /\ res.error.name \in {"UsbTransfer", "Usb"}
            /\ \A i \in 1..Len(cmdLog) :
                   cmdLog[i].op = "clear_halt" =>
                       i - 1 \in BulkTransfers /\ cmdLog[i - 1].status = "stall"
            /\ \A i \in BulkTransfers :
                   cmdLog[i].status = "fault" =>
                       /\ Len(cmdLog) = i
                       /\ ~res.ok
                       /\ res.error.name = "UsbTransfer"
            /\ (call.out.status = "ok"
                /\ call.out.actual # (5 + call.command.NPARAM) * 4) =>
                   /\ Len(cmdLog) = 1
                   /\ ~res.ok
                   /\ res.error.name = "Send"
                   /\ res.error.a = call.out.actual
                   /\ res.error.b = (5 + call.command.NPARAM) * 4
            /\ \A i \in BulkTransfers :
                   (/\ cmdLog[i].op = "bulk_in"
                    /\ cmdLog[i].status = "ok"
                    /\ cmdLog[i].buffer.len < MinLength(i)) =>
                       /\ Len(cmdLog) = i
                       /\ ~res.ok
                       /\ res.error.name = "Receive"
                       /\ res.error.a = cmdLog[i].buffer.len
                       /\ res.error.b = MinLength(i)

\* the read of a response body stalled after the write went through
C22_Witness ==
    /\ cmdCall # None
    /\ Len(cmdLog) = 3
    /\ cmdLog[1].status = "ok"
    /\ cmdLog[2].op = "bulk_in"
    /\ cmdLog[2].status = "stall"
    /\ cmdLog[3].op = "clear_halt"
    /\ cmdLog[3].endpoint = "in"



(***************************************************************************)
(* The copy into the accumulator, checked under SpecDepth.                 *)
(***************************************************************************)
\* C23 (the sub-packets of a frame): a worker accepted with subsequence
\* 0..9 is copied to memory[subsequence * length ..] whole.
C23_InRangeCopied ==
    (/\ depthCall.kind = "footer"
     /\ depthPanic = "none"
     /\ Unwrap(depthCall.footer).subsequence < SubPacketCount) =>
        LET cell == memory[Unwrap(depthCall.footer).subsequence
                           * WORKER_CAPACITY]
        IN  cell.off = 0 /\ WorkerLen(cell.w) = WORKER_CAPACITY

\* C23: whatever footer.subsequence is, parse copies the worker to
\* memory[subsequence * length .. subsequence * length + length] when that
\* range lies inside the accumulator and skips the copy otherwise: it never
\* takes a range of the accumulator that reaches past its end.
C23_NeverOutsideAccumulator ==
    depthCall.kind = "footer" => depthPanic # "slice"



(***************************************************************************)
(* The worker under transfers of any size, checked under SpecWorker.       *)
(***************************************************************************)
\* C28: after every parse call the worker holds at most WORKER_CAPACITY
\* bytes; a footer is cut only from a transfer at least as long as a
\* footer, so the cut never underflows; and the worker the footer is
\* compared with is exactly WORKER_CAPACITY bytes long.
C28_WorkerWithinCapacity ==
    /\ WorkerLen(worker) <= WORKER_CAPACITY
    /\ depthPanic # "drain"
    /\ depthCall.footer # None =>
           (depthCall.kind = "footer"
               <=> Unwrap(depthCall.footer).length = WORKER_CAPACITY)
    /\ Accepted(depthCall) =>
           WorkerLen(depthRun.subs[Len(depthRun.subs)].w) = WORKER_CAPACITY

\* a transfer that is a footer and nothing else was accepted on a full worker
C28_Witness ==
    /\ Accepted(depthCall)
    /\ LET w == depthRun.subs[Len(depthRun.subs)].w
       IN  /\ Len(w) = 2
           /\ w[1].len = WORKER_CAPACITY - DepthFooterSize
           /\ w[2].len = DepthFooterSize

(***************************************************************************)
(* The u32 arithmetic of parse, checked under SpecDepth.                   *)
(***************************************************************************)
\* C29: whatever the footer fields, the u32 arithmetic of parse stays in
\* range: the shift 1 << subsequence is by less than 32 bits, the product
\* subsequence * length fits 32 bits and current_sequence -
\* processed_packets is not negative.
C29_ArithmeticInRange ==
    depthPanic \notin {"shl", "mul", "sub"}


(***************************************************************************)
(* One poll call and the transfers it takes back, checked under SpecDev.   *)
(***************************************************************************)
PollOperations == {"poll_color_packet", "poll_depth_packet"}

\* C30: a poll call made while running feeds every completed transfer to
\* the parser in completion order and returns the last packet the parser
\* completed in the call, or none when it completed none; packets
\* completed earlier in the call are not returned; a transfer error ends
\* the call with the error and no packet, after the transfers before it
\* were fed.
C30_PollReturnsLastPacket ==
    (opCall.op \in PollOperations /\ opCall.wasRunning) =>
        LET c == opCall.completions
        IN  /\ FirstError(c) = 0 =>
                   /\ opCall.fed = [i \in 1..Len(c) |-> i]
                   /\ opResult = OpOk(LastPacket(c))
            /\ FirstError(c) # 0 =>
                   /\ opCall.fed = [i \in 1..(FirstError(c) - 1) |-> i]
                   /\ opResult = OpErr("UsbTransfer")

\* two packets were completed in one call
C30_Witness ==
    /\ opCall.op \in PollOperations
    /\ opCall.wasRunning
    /\ FirstError(opCall.completions) = 0
    /\ Cardinality({i \in 1..Len(opCall.completions) :
                       opCall.completions[i] = "packet"}) >= 2
    /\ opResult.ok



(***************************************************************************)
(* The depth range of the edge-aware stage, checked under SpecConfig.      *)
(***************************************************************************)
\* C21: set_config turns Config.min_depth and Config.max_depth from metres
\* into millimetres (times 1000) in every back-end; with the default
\* Config the edge-aware stage returns 0 for a depth outside [500, 4500]
\* mm and keeps a depth inside it (at a border pixel, where no edge test
\* applies, the depth is returned as it is).
C21_DepthRangeInMillimetres ==
    /\ stageCall.stage = "set_config" =>
           /\ processor.min_depth = stageCall.config.min_depth * 1000
           /\ processor.max_depth = stageCall.config.max_depth * 1000
           /\ stageCall.opencl.MIN_DEPTH = stageCall.config.min_depth * 1000
           /\ stageCall.opencl.MAX_DEPTH = stageCall.config.max_depth * 1000
    /\ (/\ stageCall.stage = "filter_pixel_stage2"
        /\ SetConfigCall(processor, ConfigDefault) = processor) =>
           LET inside == /\ stageCall.raw_depth >= 500000
                         /\ stageCall.raw_depth <= 4500000
           IN  /\ ~inside => stageCall.out = 0
               /\ (inside /\ Border(stageCall.x, stageCall.y)) =>
                      stageCall.out = stageCall.raw_depth



(***************************************************************************)
(* The unpack stage and its lookup table, checked under SpecUnpack.        *)
(***************************************************************************)
\* the 11-bit field of a row the sample of column x is packed in
FieldOf(x) == (x \div 4) + ((x % 4) * 128)

Decoded ==
    /\ stageCall.stage = "decode_pixel_measurement"
    /\ stageCall.result.read

\* C24: for a column x in 1..=510 the unpack stage reads the 11 bits that
\* start at bit ((x >> 2) + ((x & 3) << 7)) * 11 of the row: word bit >> 4,
\* shift bit & 15, that word and the next both inside the 352 words of the
\* row, so that a sample packed in the field of one column is read whole by
\* that column and is not seen by any other.
C24_ReadsOwnField ==
    Decoded =>
        /\ stageCall.result.bit = FieldOf(stageCall.x) * 11
        /\ stageCall.result.r1yi = (FieldOf(stageCall.x) * 11) \div 16
        /\ stageCall.result.r1zi = (FieldOf(stageCall.x) * 11) % 16
        /\ stageCall.result.r1yi + 1 < 352
        /\ stageCall.result.sample =
              IF stageCall.data.field = FieldOf(stageCall.x)
              THEN stageCall.data.value ELSE 0

\* the words read are inside the row whatever the bit offset is
C24_ReadsInsideRow ==
    Decoded => stageCall.result.r1yi + 1 < 352



\* a sample looked up in the lut of set_ir_params
LookedUp ==
    /\ Decoded
    /\ stageCall.lut = "built"

\* the step of the ramp from an entry of block b to the next: doubling
\* from block 0 on, or from block 1 on
RampStep(b, fromBlockOne) ==
    IF ~fromBlockOne THEN 2 ^ b
    ELSE IF b = 0 THEN 1 ELSE 2 ^ (b - 1)

\* the entries of the lut around the sample looked up
LutRamp(fromBlockOne) ==
    LET s == stageCall.result.sample
        out == stageCall.result.out
    IN  /\ s = 0 => out = 0
        /\ s \in 1..1023 =>
               out - Lut11To16(processor, s - 1)
                  = RampStep((s - 1) \div 128, fromBlockOne)
        /\ s = 1024 => out = 32767
        /\ s \in 1025..2047 => out = -Lut11To16(processor, s - 1024)
        /\ out \in -32768..32767
        /\ ~BuiltLut.overflow

\* C25 as stated: lut[0] = 0; over 0..1024 the lut is a ramp whose step is
\* constant inside each block of 128 entries and doubles from every block
\* to the next (1, 2, 4, ... for blocks 0, 1, 2, ...); lut[1024 + x] =
\* -lut[x]; lut[1024] = 32767; every entry fits an i16 without overflow.
C25_StepDoublesEveryBlock ==
    LookedUp => LutRamp(FALSE)

\* C25, amended: as stated, but the step is 1 in blocks 0 and 1 and doubles
\* from block 1 on (1, 1, 2, 4, 8, 16, 32, 64 for blocks 0..7).
C25_StepDoublesFromBlockOne ==
    LookedUp => LutRamp(TRUE)

\* an entry of block 1 was looked up: lut[129] = 129
C25_Witness ==
    /\ LookedUp
    /\ stageCall.result.sample = 129
    /\ stageCall.result.out = 129



(***************************************************************************)
(* The P0 planes and the bilateral kernel, checked under SpecStage1.       *)
(***************************************************************************)
\* a pixel read from trig tables that set_p0_tables filled with flip_ptables
PhaseRead ==
    /\ stageCall.stage = "process_measurement_triple"
    /\ stageCall.p0 # None
    /\ stageCall.flip_ptables

\* C26: with flip_ptables on, the phase bias used for pixel (x, y) is the
\* factory value at (511 - x, y): each P0 plane is mirrored left to right
\* and its rows stay in order.
C26_MirrorsColumns ==
    PhaseRead =>
        Unwrap(stageCall.p0) = (511 - stageCall.x) + stageCall.y * DEPTH_WIDTH

\* what set_p0_tables does: the rows are reversed, the columns stay
C26_ReversesRows ==
    PhaseRead =>
        Unwrap(stageCall.p0) = stageCall.x + (423 - stageCall.y) * DEPTH_WIDTH

\* C27: at an interior pixel, for every frequency, the neighbour at offset
\* (xi, yi) is weighted with kernel entry (yi + 1) * 3 + (xi + 1) and the
\* centre with entry 4; the four neighbours after the centre use entries
\* 5, 6, 7 and 8.
C27_KernelInRasterOrder ==
    (stageCall.stage = "filter_pixel_stage1" /\ ~stageCall.result.passthrough)
        => \A f \in 1..3 : \A k \in 1..9 :
               LET visit == stageCall.result.visits[f][k]
               IN  visit.kernel = (visit.yi + 1) * 3 + (visit.xi + 1)

\* the kernel entries in the order used: 0, 1, 2, 3, 4, 4, 5, 6, 7
C27_CentreEntryUsedTwice ==
    (stageCall.stage = "filter_pixel_stage1" /\ ~stageCall.result.passthrough)
        => \A f \in 1..3 :
               [k \in 1..9 |-> stageCall.result.visits[f][k].kernel]
                   = <<0, 1, 2, 3, 4, 4, 5, 6, 7>>


====
